---- MODULE Spec2Model ----
(***************************************************************************)
(* Model of the scope-aware mutation and coordination layer of the         *)
(* vscode-todo extension: the command and webview-message handlers of      *)
(* extension.ts (src/unnamed/part_000), the AutoDeleteCoordinator, the     *)
(* undo-snapshot flow and the tree drag-and-drop reorder                   *)
(* (src/src/todoWebviewHost.ts).                                           *)
(*                                                                         *)
(* Every handler is cut at its awaits: one action per synchronous segment. *)
(* A suspended handler is a record in `tasks` holding its local variables. *)
(* Timers (setTimeout) are records that fire at any later moment.          *)
(* TodoRepository, normalizePositions and reorderTodosByOrder are not part *)
(* of the sources at hand; they are modelled from their documented         *)
(* contract (value semantics: a read returns a copy of the stored list).   *)
(* The updatedAt stamp is left out: no handler ever reads it.              *)
(***************************************************************************)
EXTENDS Integers, Sequences, FiniteSets, TLC

\* ------------------------------------------------------------------ bounds
\* Largest number of ids createTodo may allocate in one behaviour.
MaxIds == 2
\* Number of handlers that may be suspended at a time.
MaxTasks == 2
\* The same, where every entry point of the extension takes part.
MaxTasksAll == 1
\* Number of snapshot-expiry timeouts that may be pending at a time.
MaxExpiry == 2
\* Number of live auto-delete timeouts.
MaxTimers == 4
\* Number of todos of the list the reorder specification starts from.
MaxReorder == 3
\* Number of messages posted to one webview provider between two disposals.
MaxPosts == 3

\* --------------------------------------------------------- program constants
UNDO_SNAPSHOT_TTL_MS == 10000
DEFAULT_AUTO_DELETE_DELAY_MS == 1500
DEFAULT_AUTO_DELETE_FADE_MS == 750

\* ------------------------------------------------------------------ domains
Folders == {"wA", "wB"}
\* A missing workspaceFolder (undefined or ""): falsy in the source.
NoFolder == ""
GlobalScope == [scope |-> "global", workspaceFolder |-> NoFolder]
WorkspaceScope(f) == [scope |-> "workspace", workspaceFolder |-> f]
\* The `undefined` result of a failed scope resolution.
NoScope == [scope |-> "undefined", workspaceFolder |-> NoFolder]
\* ScopeTarget values that name a storage partition.
Scopes == {GlobalScope} \cup {WorkspaceScope(f) : f \in Folders}
\* WebviewScope values a message may carry, the malformed one included.
WebviewScopes == Scopes \cup {WorkspaceScope(NoFolder)}
TodoIds == 1..MaxIds
NoTodo == 0
\* position of a todo that createTodo has just built.
Unset == 0
\* Titles as sequences of characters; " " is white space.
TitleInputs == { <<>>, <<" ">>, <<" ", "a">>, <<"b">> }
\* the titles the messages of the full specification carry
CreateTitles == { <<" ">>, <<" ", "a">> }
EditTitles == { <<>>, <<"a", " ">> }

\* A numeric setting as configuration.get returns it.
Num(v) == [type |-> "number", nan |-> FALSE, value |-> v]
NotANumber == [type |-> "number", nan |-> TRUE, value |-> 0]
NonNumeric == [type |-> "string", nan |-> FALSE, value |-> 0]

\* --------------------------------------------------------------- variables
VARIABLES
    config,          \* the `todo` configuration section
    faulty,          \* whether the storage collaborator may fail a write
    cap,             \* limits of the behaviour: ids to allocate, handler slots
    globalTodos,     \* repository: the profile-wide list
    workspaceTodos,  \* repository: one list per workspace folder
    snapshots,       \* repository: undo snapshots, records [key, todos]
    nextId,          \* repository: the next id createTodo hands out
    timers,          \* AutoDeleteCoordinator.timers: key -> timeout handle
    live,            \* timeouts of the coordinator that are set and not cleared
    expiry,          \* pending snapshot-expiry timeouts, oldest first
    tasks,           \* suspended handlers, by slot
    autoPending,     \* auto-delete callbacks suspended at their persist
    disposed,        \* context.subscriptions have been disposed
    out,             \* messages and UI calls issued by the latest effective step
    solo,            \* history: slot of a remove flow no other step has interleaved
    recent,          \* history: per scope key, the latest destructive action
    reopened,        \* history: keys whose pending auto-delete a reopen cancelled
    untouched,       \* history: keys scheduled and left alone since
    providers,       \* TodoWebviewHost.providers: mode -> webviewView, ready, pendingMessages
    listeners,       \* modes whose webview has an onDidReceiveMessage listener
    posted,          \* history: per mode, the messages posted since the last disposal
    delivered        \* history: per mode, the messages handed to webview.postMessage since

vars == << config, faulty, cap, globalTodos, workspaceTodos, snapshots, nextId,
           timers, live, expiry, tasks, autoPending, disposed, out,
           solo, recent, reopened, untouched,
           providers, listeners, posted, delivered >>

repoVars == << globalTodos, workspaceTodos >>
timerVars == << timers, live >>
hostVars == << providers, listeners, posted, delivered >>
\* what no handler changes: the settings, the storage behaviour, the limits,
\* and the providers of the webview host (handlers hand their messages over
\* in out; the providers' queues are specified on their own below)
envVars == << config, faulty, cap, hostVars >>
autoHistory == << reopened, untouched >>

\* ---------------------------------------------------------- pure helpers
Range(f) == { f[x] : x \in DOMAIN f }

RECURSIVE SeqFilterIdNot(_, _)
\* todos.filter((item) => item.id !== todoId)
SeqFilterIdNot(todos, todoId) ==
    IF todos = <<>> THEN <<>>
    ELSE IF Head(todos).id = todoId THEN SeqFilterIdNot(Tail(todos), todoId)
         ELSE <<Head(todos)>> \o SeqFilterIdNot(Tail(todos), todoId)

\* todos.find((item) => item.id === todoId) !== undefined
HasTodo(todos, todoId) == \E i \in 1..Len(todos) : todos[i].id = todoId

\* index of the first todo with the id (findIndex), 0 when absent
IndexOfTodo(todos, todoId) ==
    IF HasTodo(todos, todoId)
    THEN CHOOSE i \in 1..Len(todos) :
            /\ todos[i].id = todoId
            /\ \A j \in 1..(i - 1) : todos[j].id # todoId
    ELSE 0

\* a trim that returns the title as it is
Trim_none(s) == s

RECURSIVE TrimLeft(_)
TrimLeft(s) == IF s # <<>> /\ Head(s) = " " THEN TrimLeft(Tail(s)) ELSE s

RECURSIVE TrimRight(_)
TrimRight(s) ==
    IF s # <<>> /\ s[Len(s)] = " " THEN TrimRight(SubSeq(s, 1, Len(s) - 1)) ELSE s

\* String.prototype.trim
Trim(s) == TrimRight(TrimLeft(s))

\* comparator (a, b) => a.position - b.position; an unset position yields NaN,
\* which the sort treats as "equal"
ComparePosition(a, b) ==
    IF a.position = Unset \/ b.position = Unset THEN 0 ELSE a.position - b.position

RECURSIVE InsertByPosition(_, _)
\* stable insertion of t into the sorted sequence
InsertByPosition(sorted, t) ==
    IF sorted = <<>> THEN <<t>>
    ELSE IF ComparePosition(sorted[Len(sorted)], t) > 0
         THEN InsertByPosition(SubSeq(sorted, 1, Len(sorted) - 1), t)
                  \o <<sorted[Len(sorted)]>>
         ELSE sorted \o <<t>>

RECURSIVE SortByPosition(_)
SortByPosition(todos) ==
    IF todos = <<>> THEN <<>>
    ELSE InsertByPosition(SortByPosition(SubSeq(todos, 1, Len(todos) - 1)),
                          todos[Len(todos)])

\* domain/todo normalizePositions: stable sort by position, then 1..N
normalizePositions(todos) ==
    LET sorted == SortByPosition(todos)
    IN  [i \in 1..Len(sorted) |-> [sorted[i] EXCEPT !.position = i]]


\* ------------------------------------------------ domain/todo reorder
RECURSIVE NamedTodos(_, _, _)
\* the todos named by orderedIds, in that order, each once; unknown ids skipped
NamedTodos(orderedIds, todos, taken) ==
    IF orderedIds = <<>> THEN <<>>
    ELSE LET id == Head(orderedIds)
         IN  IF HasTodo(todos, id) /\ id \notin taken
             THEN <<todos[IndexOfTodo(todos, id)]>> \o NamedTodos(Tail(orderedIds), todos, taken \cup {id})
             ELSE NamedTodos(Tail(orderedIds), todos, taken)

RECURSIVE SeqWithoutIds(_, _)
SeqWithoutIds(todos, ids) ==
    IF todos = <<>> THEN <<>>
    ELSE IF Head(todos).id \in ids THEN SeqWithoutIds(Tail(todos), ids)
         ELSE <<Head(todos)>> \o SeqWithoutIds(Tail(todos), ids)

IdsOf(todos) == [i \in 1..Len(todos) |-> todos[i].id]

\* a reorder that puts the named todos behind the others
reorderTodosByOrder_namedLast(todos, orderedIds) ==
    LET named == NamedTodos(orderedIds, todos, {})
        rest == SeqWithoutIds(todos, Range(IdsOf(named)))
        result == rest \o named
        changed == Len(todos) > 1 /\ IdsOf(result) # IdsOf(todos)
    IN  [changed |-> changed,
         todos |-> IF changed
                   THEN [i \in 1..Len(result) |-> [result[i] EXCEPT !.position = i]]
                   ELSE todos]

\* domain/todo reorderTodosByOrder: [changed, todos]
reorderTodosByOrder(todos, orderedIds) ==
    LET named == NamedTodos(orderedIds, todos, {})
        rest == SeqWithoutIds(todos, Range(IdsOf(named)))
        result == named \o rest
        changed == Len(todos) > 1 /\ IdsOf(result) # IdsOf(todos)
    IN  [changed |-> changed,
         todos |-> IF changed
                   THEN [i \in 1..Len(result) |-> [result[i] EXCEPT !.position = i]]
                   ELSE todos]

\* the order arrays a reorderTodos message may carry
Orders == UNION { [1..n -> TodoIds] : n \in 0..2 }
\* the order arrays of the full specification
SomeOrders == { <<1>>, <<2, 1>> }

\* ------------------------------------------------------------ repository
\* TodoRepository.scopeKey(scope, workspaceFolder)
scopeKey(scope, workspaceFolder) ==
    IF scope = "global" THEN "global" ELSE workspaceFolder

\* the snapshot stored under a key, << >> of them when there is none
SnapshotsOf(key) == { s \in snapshots : s.key = key }

\* TodoRepository.captureSnapshot(scopeKey, todos): overwrites the key's snapshot
captureSnapshot(key, todos) ==
    snapshots' = { s \in snapshots : s.key # key } \cup { [key |-> key, todos |-> todos] }

\* TodoRepository.consumeSnapshot(scopeKey): returns and clears
consumeSnapshot(key) ==
    snapshots' = { s \in snapshots : s.key # key }

\* TodoRepository.getGlobalTodos / getWorkspaceTodos
getGlobalTodos == globalTodos
getWorkspaceTodos(folder) == workspaceTodos[folder]

\* TodoRepository.saveGlobalTodos / saveWorkspaceTodos: replace the partition
saveGlobalTodos(todos) ==
    /\ globalTodos' = todos
    /\ UNCHANGED workspaceTodos
saveWorkspaceTodos(folder, todos) ==
    /\ workspaceTodos' = [workspaceTodos EXCEPT ![folder] = todos]
    /\ UNCHANGED globalTodos

\* TodoRepository.createTodo: a fresh id, not completed, position unset
createTodo(title) ==
    [id |-> nextId, title |-> title, completed |-> FALSE, position |-> Unset]

\* outcomes of one write to the storage collaborator
SaveOutcomes == IF faulty THEN {TRUE, FALSE} ELSE {TRUE}

\* ------------------------------------------------- extension.ts: helpers
readTodos(scope) ==
    IF scope.scope = "global" THEN getGlobalTodos
    ELSE getWorkspaceTodos(scope.workspaceFolder)

\* persistTodos without the call of normalizePositions
persistTodos_raw(scope, todos) ==
    IF scope.scope = "global" THEN saveGlobalTodos(todos)
    ELSE saveWorkspaceTodos(scope.workspaceFolder, todos)

\* persistTodos that writes the global partition whatever the scope
persistTodos_global(scope, todos) ==
    saveGlobalTodos(normalizePositions(todos))

persistTodos(scope, todos) ==
    LET normalized == normalizePositions(todos)
    IN  IF scope.scope = "global" THEN saveGlobalTodos(normalized)
        ELSE saveWorkspaceTodos(scope.workspaceFolder, normalized)

\* a conversion that takes a workspace scope without folder for the global scope
scopeFromWebviewScope_global(scope) ==
    IF scope.scope = "global" \/ scope.workspaceFolder = NoFolder THEN GlobalScope
    ELSE WorkspaceScope(scope.workspaceFolder)

\* scopeFromWebviewScope
scopeFromWebviewScope(scope) ==
    IF scope.scope = "global" THEN GlobalScope
    ELSE IF scope.workspaceFolder = NoFolder THEN NoScope
         ELSE WorkspaceScope(scope.workspaceFolder)

todoTargetToScopeTarget(target) ==
    IF target.scope = "global" THEN GlobalScope
    ELSE IF target.workspaceFolder = NoFolder THEN NoScope
         ELSE WorkspaceScope(target.workspaceFolder)

\* a scopeKey call that leaves the workspace folder out
SnapshotKey_flat(scope) == scopeKey("global", NoFolder)

\* the scopeKey call of clearScope and removeTodoWithUndo
SnapshotKey(scope) ==
    scopeKey(scope.scope,
             IF scope.scope = "workspace" THEN scope.workspaceFolder ELSE NoFolder)

\* buildTodoQuickPickItems(repository).length
PickCount ==
    Len(getGlobalTodos)
        + Len(getWorkspaceTodos("wA")) + Len(getWorkspaceTodos("wB"))

\* ------------------------------------------------ outputs of one step
Msg(type) == [type |-> type, scope |-> NoScope, todoId |-> NoTodo, durationMs |-> 0]
\* broadcastWebviewState
StateUpdate == Msg("stateUpdate")
\* the autoDeleteCue message of AutoDeleteCoordinator.schedule
AutoDeleteCue(scope, todoId, durationMs) ==
    [type |-> "autoDeleteCue", scope |-> scope, todoId |-> todoId, durationMs |-> durationMs]

\* ------------------------------------------------ todoWebviewHost.ts
\* ProviderMode
ProviderModes == { "global", "projects" }
\* two of the types of OutboundMessage, enough to tell the order of posts
OutboundTypes == { "stateUpdate", "autoDeleteCue" }

\* new TodoWebviewProvider(...): no view, not ready, nothing pending
NewProvider == [webviewView |-> FALSE, ready |-> FALSE, pendingMessages |-> <<>>]

\* new TodoWebviewHost(context)
HostInit ==
    /\ providers = [mode \in ProviderModes |-> NewProvider]
    /\ listeners = {}
    /\ posted = [mode \in ProviderModes |-> <<>>]
    /\ delivered = [mode \in ProviderModes |-> <<>>]

\* what stays as it is while the host acts
handlerVars == << config, faulty, cap, globalTodos, workspaceTodos, snapshots, nextId,
                  timers, live, expiry, tasks, autoPending, out,
                  solo, recent, reopened, untouched >>

\* TodoWebviewProvider.postMessage: what is queued and what is handed to the webview
ProviderPost(provider, message) ==
    IF ~provider.webviewView \/ ~provider.ready
    THEN [queued |-> << message >>, sent |-> <<>>]
    ELSE [queued |-> <<>>, sent |-> << message >>]

\* a flush that hands the newest message over first
Flushed_reversed(provider) ==
    IF ~provider.webviewView \/ ~provider.ready \/ Len(provider.pendingMessages) = 0
    THEN <<>>
    ELSE [i \in 1..Len(provider.pendingMessages) |->
             provider.pendingMessages[Len(provider.pendingMessages) + 1 - i]]

\* TodoWebviewProvider.flushPendingMessages: the messages handed to the webview
Flushed(provider) ==
    IF ~provider.webviewView \/ ~provider.ready \/ Len(provider.pendingMessages) = 0
    THEN <<>>
    ELSE provider.pendingMessages

\* the posts of one call, mode by mode, applied to the providers
PostTo(modes, message) ==
    /\ \A mode \in modes : Len(posted[mode]) < MaxPosts
    /\ providers' = [mode \in ProviderModes |->
                       IF mode \in modes
                       THEN [providers[mode] EXCEPT
                               !.pendingMessages = @ \o ProviderPost(providers[mode], message).queued]
                       ELSE providers[mode]]
    /\ delivered' = [mode \in ProviderModes |->
                       IF mode \in modes
                       THEN delivered[mode] \o ProviderPost(providers[mode], message).sent
                       ELSE delivered[mode]]
    /\ posted' = [mode \in ProviderModes |->
                       IF mode \in modes THEN Append(posted[mode], message) ELSE posted[mode]]
    /\ UNCHANGED << listeners, disposed, handlerVars >>

\* TodoWebviewHost.postMessage(mode, message)
HostPostMessage(mode, message) ==
    /\ mode \in DOMAIN providers
    /\ PostTo({mode}, message)

\* TodoWebviewHost.broadcast(message)
HostBroadcast(message) ==
    /\ message \in OutboundTypes
    /\ PostTo(DOMAIN providers, message)

\* TodoWebviewProvider.resolveWebviewView: VS Code shows the view (again)
ResolveWebviewView(mode) ==
    /\ ~disposed
    /\ providers' = [providers EXCEPT ![mode].webviewView = TRUE, ![mode].ready = FALSE]
    /\ listeners' = listeners \cup {mode}
    /\ UNCHANGED << posted, delivered, disposed, handlerVars >>

\* TodoWebviewHost.handleMessage, type webviewReady: markReady and the flush.
\* The listener of a resolved view is never removed, so the message can also
\* arrive after the provider was disposed.
HostWebviewReady(mode) ==
    /\ mode \in listeners
    /\ LET marked == [providers[mode] EXCEPT !.ready = TRUE]
       IN  /\ providers' = [providers EXCEPT ![mode] =
                               IF Flushed(marked) = <<>> THEN marked
                               ELSE [marked EXCEPT !.pendingMessages = <<>>]]
           /\ delivered' = [delivered EXCEPT ![mode] = @ \o Flushed(marked)]
    /\ UNCHANGED << listeners, posted, disposed, handlerVars >>

\* TodoWebviewHost.dispose: every provider drops its view and its queue
HostDispose ==
    /\ ~disposed
    /\ disposed' = TRUE
    /\ providers' = [mode \in ProviderModes |-> NewProvider]
    /\ posted' = [mode \in ProviderModes |-> <<>>]
    /\ delivered' = [mode \in ProviderModes |-> <<>>]
    /\ UNCHANGED << listeners, handlerVars >>

\* ------------------------------------------------ suspended handlers
Idle == [pc |-> "idle", scope |-> NoScope, todoId |-> NoTodo, todos |-> <<>>, completed |-> FALSE, via |-> "none"]
Slots == 1..cap.slots
HasFreeSlot == \E t \in Slots : tasks[t].pc = "idle"
FreeSlot == CHOOSE t \in Slots : tasks[t].pc = "idle" /\ \A u \in Slots : tasks[u].pc = "idle" => t <= u
Suspend(tid, pc, scope, todoId, todos, completed, via) ==
    tasks' = [tasks EXCEPT ![tid] = [pc |-> pc, scope |-> scope, todoId |-> todoId, todos |-> todos, completed |-> completed, via |-> via]]
Finish(tid) ==
    tasks' = [tasks EXCEPT ![tid] = Idle]

\* ------------------------------------------------ AutoDeleteCoordinator
\* a key that leaves the todo id out
buildKey_scopeOnly(scope, todoId) ==
    IF scope.scope = "global" THEN "global:" ELSE scope.workspaceFolder \o ":"

\* AutoDeleteCoordinator.buildKey: the template string `${scope}:${todoId}`;
\* a todo id is written as its numeral
buildKey(scope, todoId) ==
    IF scope.scope = "global" THEN "global:" \o ToString(todoId)
    ELSE (scope.workspaceFolder \o ":") \o ToString(todoId)

\* a sanitizeDelay that replaces zero as well
sanitizeDelay_positive(value, defaultValue) ==
    IF value.type # "number" \/ value.nan \/ value.value <= 0 THEN defaultValue
    ELSE value.value

\* AutoDeleteCoordinator.sanitizeDelay
sanitizeDelay(value, defaultValue) ==
    IF value.type # "number" \/ value.nan \/ value.value < 0 THEN defaultValue
    ELSE value.value

MapSet(m, k, v) == [x \in DOMAIN m \cup {k} |-> IF x = k THEN v ELSE m[x]]
MapDelete(m, k) == [x \in DOMAIN m \ {k} |-> m[x]]

\* the coordinator after cancel(scope, todoId), as [timers, live]
Cancelled(tm, lv, scope, todoId) ==
    LET key == buildKey(scope, todoId)
    IN  IF key \in DOMAIN tm
        THEN [timers |-> MapDelete(tm, key), live |-> { t \in lv : t.h # tm[key] }]
        ELSE [timers |-> tm, live |-> lv]

\* AutoDeleteCoordinator.cancel
cancel(scope, todoId) ==
    LET c == Cancelled(timers, live, scope, todoId)
    IN  timers' = c.timers /\ live' = c.live

RECURSIVE CancelledAll(_, _, _, _)
\* the coordinator after cancelScope(scope, todos)
CancelledAll(tm, lv, scope, todos) ==
    IF todos = <<>> THEN [timers |-> tm, live |-> lv]
    ELSE LET c == Cancelled(tm, lv, scope, Head(todos).id)
         IN  CancelledAll(c.timers, c.live, scope, Tail(todos))

\* AutoDeleteCoordinator.cancelScope
cancelScope(scope, todos) ==
    LET c == CancelledAll(timers, live, scope, todos)
    IN  timers' = c.timers /\ live' = c.live

\* a handle no live timeout and no map entry carries
FreshHandle(key, used) ==
    << key, CHOOSE n \in 1..(Cardinality(used) + 1) :
                /\ << key, n >> \notin used
                /\ \A m \in 1..(n - 1) : << key, m >> \in used >>

Timeout(h, scope, todoId, kind, ms, fadeDuration) ==
    [h |-> h, scope |-> scope, todoId |-> todoId, kind |-> kind, ms |-> ms, fadeDuration |-> fadeDuration]

\* a schedule that sets the new timeout without clearing the pending one
schedule_noCancel(scope, todoId) ==
    IF ~config.autoDeleteCompleted
    THEN cancel(scope, todoId)
    ELSE LET delay == sanitizeDelay(config.autoDeleteDelayMs, DEFAULT_AUTO_DELETE_DELAY_MS)
             fadeDuration == sanitizeDelay(config.autoDeleteFadeMs, DEFAULT_AUTO_DELETE_FADE_MS)
             key == buildKey(scope, todoId)
             h == FreshHandle(key, { t.h : t \in live } \cup Range(timers))
         IN  /\ timers' = MapSet(timers, key, h)
             /\ live' = live \cup { Timeout(h, scope, todoId, "delay", delay, fadeDuration) }

\* a schedule that does not look at todo.autoDeleteCompleted
schedule_alwaysOn(scope, todoId) ==
    LET delay == sanitizeDelay(config.autoDeleteDelayMs, DEFAULT_AUTO_DELETE_DELAY_MS)
        fadeDuration == sanitizeDelay(config.autoDeleteFadeMs, DEFAULT_AUTO_DELETE_FADE_MS)
        key == buildKey(scope, todoId)
        c == Cancelled(timers, live, scope, todoId)
        h == FreshHandle(key, { t.h : t \in c.live } \cup Range(c.timers))
    IN  /\ timers' = MapSet(c.timers, key, h)
        /\ live' = c.live \cup { Timeout(h, scope, todoId, "delay", delay, fadeDuration) }

\* a schedule that falls back to the delay default for the fade as well
schedule_oneDefault(scope, todoId) ==
    IF ~config.autoDeleteCompleted
    THEN cancel(scope, todoId)
    ELSE LET delay == sanitizeDelay(config.autoDeleteDelayMs, DEFAULT_AUTO_DELETE_DELAY_MS)
             fadeDuration == sanitizeDelay(config.autoDeleteFadeMs, DEFAULT_AUTO_DELETE_DELAY_MS)
             key == buildKey(scope, todoId)
             c == Cancelled(timers, live, scope, todoId)
             h == FreshHandle(key, { t.h : t \in c.live } \cup Range(c.timers))
         IN  /\ timers' = MapSet(c.timers, key, h)
             /\ live' = c.live \cup { Timeout(h, scope, todoId, "delay", delay, fadeDuration) }

\* AutoDeleteCoordinator.schedule
schedule(scope, todoId) ==
    IF ~config.autoDeleteCompleted
    THEN cancel(scope, todoId)
    ELSE LET delay == sanitizeDelay(config.autoDeleteDelayMs, DEFAULT_AUTO_DELETE_DELAY_MS)
             fadeDuration == sanitizeDelay(config.autoDeleteFadeMs, DEFAULT_AUTO_DELETE_FADE_MS)
             key == buildKey(scope, todoId)
             c == Cancelled(timers, live, scope, todoId)
             h == FreshHandle(key, { t.h : t \in c.live } \cup Range(c.timers))
         IN  /\ timers' = MapSet(c.timers, key, h)
             /\ live' = c.live \cup { Timeout(h, scope, todoId, "delay", delay, fadeDuration) }

\* AutoDeleteCoordinator.dispose
dispose ==
    /\ live' = { t \in live : t.h \notin Range(timers) }
    /\ timers' = << >>


\* ------------------------------------------------ history of a behaviour
\* These record what has happened; no handler reads them. A specification
\* records the histories its properties read: cap.track names them.
Tracks(kind) == kind \in cap.track
SnapshotKeys == { SnapshotKey(s) : s \in Scopes }
KeysOfScope(scope) == { buildKey(scope, id) : id \in TodoIds }

\* a step that is not part of the remove flow running alone
Interleaves == solo' = 0
\* the first step of the remove flow in slot tid
Starts(tid) == solo' = IF Tracks("undo") THEN tid ELSE 0
\* a later step of the remove flow in slot tid
Continues(tid) == solo' = IF solo = tid THEN tid ELSE 0

\* the handler in slot tid has captured the snapshot of key
Captured(key, tid, status) ==
    /\ recent' = IF Tracks("undo")
                 THEN [recent EXCEPT ![key] = [slot |-> tid, status |-> status]]
                 ELSE recent
    /\ expiry' = [i \in 1..Len(expiry) |->
                     IF expiry[i].key = key THEN [expiry[i] EXCEPT !.mine = FALSE]
                     ELSE expiry[i]]

\* the undo prompt in slot tid belongs to the latest destructive action of key
MostRecent(key, tid) == recent[key].slot = tid /\ recent[key].status = "open"

\* the prompt in slot tid was answered; an accepted prompt of an earlier action
\* that takes the snapshot of the latest one is recorded as "overtaken"
Answered(key, tid, status) ==
    recent' = IF MostRecent(key, tid)
              THEN [recent EXCEPT ![key].status = status]
              ELSE IF /\ Tracks("undo")
                      /\ status = "accepted"
                      /\ recent[key].status = "open"
                      /\ SnapshotsOf(key) # {}
                   THEN [recent EXCEPT ![key].status = "overtaken"]
                   ELSE recent

\* handlers that stop the todo's auto-delete or rewrite its list from a copy
Touched(keys) == untouched' = untouched \ keys

\* ------------------------------------------------ frames
undoVars == << snapshots, expiry, recent >>
\* the handler failed: its promise rejects and nothing else happens
Rejected == << Msg("rejected") >>
\* a handler that returns before it has done anything
NoEffect ==
    /\ out' = <<>>
    /\ solo' = 0
    /\ UNCHANGED << envVars, repoVars, nextId, undoVars, timerVars, tasks,
                    autoPending, disposed, autoHistory >>

\* ------------------------------------------------ webview messages
\* handleWebviewMessage, type webviewReady
WebviewReady ==
    /\ ~disposed
    /\ out' = << StateUpdate >>
    /\ Interleaves
    /\ UNCHANGED << envVars, repoVars, nextId, undoVars, timerVars, tasks,
                    autoPending, disposed, autoHistory >>

\* a push that puts the new todo in front
PushTodo_front(todos, todo) == << todo >> \o todos

\* handleWebviewCreate: todos.push(todo)
PushTodo(todos, todo) == Append(todos, todo)

\* handleWebviewMessage, type commitCreate: handleWebviewCreate up to its await
CommitCreate(scope, title) ==
    LET target == scopeFromWebviewScope(scope)
        trimmed == Trim(title)
    IN  /\ ~disposed
        /\ IF target = NoScope \/ trimmed = <<>>
           THEN NoEffect
           ELSE /\ nextId <= cap.ids
                /\ HasFreeSlot
                /\ nextId' = nextId + 1
                /\ \E ok \in SaveOutcomes :
                      IF ok
                      THEN /\ persistTodos(target, PushTodo(readTodos(target), createTodo(trimmed)))
                           /\ Suspend(FreeSlot, "mutation_await", target, NoTodo, <<>>, FALSE, "webview")
                           /\ out' = <<>>
                      ELSE /\ UNCHANGED << repoVars, tasks >>
                           /\ out' = Rejected
                /\ Interleaves
                /\ UNCHANGED << envVars, undoVars, timerVars, autoPending, disposed, autoHistory >>

\* handleWebviewMessage, type commitEdit: handleWebviewEdit up to its await
CommitEdit(scope, todoId, title) ==
    LET target == scopeFromWebviewScope(scope)
        trimmed == Trim(title)
        todos == readTodos(target)
        i == IndexOfTodo(todos, todoId)
    IN  /\ ~disposed
        /\ IF target = NoScope \/ trimmed = <<>> \/ i = 0
           THEN NoEffect
           ELSE /\ HasFreeSlot
                /\ \E ok \in SaveOutcomes :
                      IF ok
                      THEN /\ persistTodos(target, [todos EXCEPT ![i].title = trimmed])
                           /\ Suspend(FreeSlot, "mutation_await", target, NoTodo, <<>>, FALSE, "webview")
                           /\ out' = <<>>
                      ELSE /\ UNCHANGED << repoVars, tasks >>
                           /\ out' = Rejected
                /\ Interleaves
                /\ UNCHANGED << envVars, nextId, undoVars, timerVars, autoPending, disposed, autoHistory >>

\* a handleWebviewReorder that persists whatever reorderTodosByOrder returns
ReorderTodos_always(scope, order) ==
    LET target == scopeFromWebviewScope(scope)
        todos == readTodos(target)
        reordered == reorderTodosByOrder(todos, order)
    IN  /\ ~disposed
        /\ IF target = NoScope \/ Len(todos) <= 1
           THEN NoEffect
           ELSE /\ HasFreeSlot
                /\ \E ok \in SaveOutcomes :
                      IF ok
                      THEN /\ persistTodos(target, reordered.todos)
                           /\ Suspend(FreeSlot, "mutation_await", target, NoTodo, <<>>, FALSE, "webview")
                           /\ out' = <<>>
                      ELSE /\ UNCHANGED << repoVars, tasks >>
                           /\ out' = Rejected
                /\ Interleaves
                /\ UNCHANGED << envVars, nextId, undoVars, timerVars, autoPending, disposed, autoHistory >>

\* handleWebviewMessage, type reorderTodos: handleWebviewReorder up to its await
ReorderTodos(scope, order) ==
    LET target == scopeFromWebviewScope(scope)
        todos == readTodos(target)
        reordered == reorderTodosByOrder(todos, order)
    IN  /\ ~disposed
        /\ IF target = NoScope \/ Len(todos) <= 1 \/ ~reordered.changed
           THEN NoEffect
           ELSE /\ HasFreeSlot
                /\ \E ok \in SaveOutcomes :
                      IF ok
                      THEN /\ persistTodos(target, reordered.todos)
                           /\ Suspend(FreeSlot, "mutation_await", target, NoTodo, <<>>, FALSE, "webview")
                           /\ out' = <<>>
                      ELSE /\ UNCHANGED << repoVars, tasks >>
                           /\ out' = Rejected
                /\ Interleaves
                /\ UNCHANGED << envVars, nextId, undoVars, timerVars, autoPending, disposed, autoHistory >>

\* a handleWebviewMessage that returns without the broadcast
MutationResume_silent(tid) ==
    /\ tasks[tid].pc = "mutation_await"
    /\ Finish(tid)
    /\ out' = <<>>
    /\ Interleaves
    /\ UNCHANGED << envVars, repoVars, nextId, undoVars, timerVars, autoPending, disposed, autoHistory >>

\* handleWebviewMessage after handleWebviewMutation returned mutated: broadcast
MutationResume(tid) ==
    /\ tasks[tid].pc = "mutation_await"
    /\ Finish(tid)
    /\ out' = << StateUpdate >>
    /\ Interleaves
    /\ UNCHANGED << envVars, repoVars, nextId, undoVars, timerVars, autoPending, disposed, autoHistory >>

\* handleWebviewToggle / toggleTodoCompletion from readTodos up to the await;
\* tid is a free slot (message) or the slot of the command
ToggleBody(tid, target, todoId, via) ==
    LET todos == readTodos(target)
        i == IndexOfTodo(todos, todoId)
        key == buildKey(target, todoId)
    IN  IF i = 0
        THEN /\ Finish(tid)
             /\ out' = <<>>
             /\ UNCHANGED << repoVars, autoHistory >>
        ELSE \E ok \in SaveOutcomes :
                IF ok
                THEN /\ persistTodos(target, [todos EXCEPT ![i].completed = ~todos[i].completed])
                     /\ Suspend(tid, "toggle_await", target, todoId, <<>>, ~todos[i].completed, via)
                     /\ out' = <<>>
                     /\ reopened' = IF Tracks("auto") /\ todos[i].completed /\ key \in DOMAIN timers
                                    THEN reopened \cup {key}
                                    ELSE reopened \ {key}
                     /\ Touched({key})
                ELSE /\ UNCHANGED << repoVars, autoHistory >>
                     /\ Finish(tid)
                     /\ out' = Rejected

\* handleWebviewMessage, type toggleComplete
ToggleComplete(scope, todoId) ==
    LET target == scopeFromWebviewScope(scope)
    IN  /\ ~disposed
        /\ IF target = NoScope
           THEN NoEffect
           ELSE /\ HasFreeSlot
                /\ ToggleBody(FreeSlot, target, todoId, "webview")
                /\ Interleaves
                /\ UNCHANGED << envVars, nextId, undoVars, timerVars, autoPending, disposed >>

\* the toggle handlers after their await: schedule or cancel, then broadcast
ToggleResume(tid) ==
    LET t == tasks[tid]
        key == buildKey(t.scope, t.todoId)
    IN  /\ t.pc = "toggle_await"
        /\ (t.completed /\ config.autoDeleteCompleted) => Cardinality(live) < MaxTimers
        /\ IF t.completed THEN schedule(t.scope, t.todoId) ELSE cancel(t.scope, t.todoId)
        /\ untouched' = IF /\ Tracks("auto") /\ t.completed /\ config.autoDeleteCompleted
                           /\ \A other \in Slots \ {tid} :
                                 ~(/\ tasks[other].pc = "toggle_await"
                                   /\ tasks[other].scope = t.scope
                                   /\ tasks[other].todoId = t.todoId)
                           /\ \E i \in 1..Len(readTodos(t.scope)) :
                                 /\ readTodos(t.scope)[i].id = t.todoId
                                 /\ readTodos(t.scope)[i].completed
                        THEN untouched \cup {key}
                        ELSE untouched \ {key}
        /\ Finish(tid)
        /\ out' = IF t.via = "command" THEN << Msg("statusBar"), StateUpdate >> ELSE << StateUpdate >>
        /\ Interleaves
        /\ UNCHANGED << envVars, repoVars, nextId, undoVars, autoPending, disposed, reopened >>

\* ------------------------------------------------ auto-delete callbacks
\* the delay callback of schedule: set the removal timeout, post the fade cue
DelayFire(t) ==
    LET key == buildKey(t.scope, t.todoId)
        h == FreshHandle(key, { x.h : x \in live \ {t} } \cup (Range(timers) \ {t.h}))
    IN  /\ t \in live
        /\ t.kind = "delay"
        /\ live' = (live \ {t}) \cup { Timeout(h, t.scope, t.todoId, "removal", t.fadeDuration, t.fadeDuration) }
        /\ timers' = MapSet(timers, key, h)
        /\ out' = << AutoDeleteCue(t.scope, t.todoId, t.fadeDuration) >>
        /\ Interleaves
        /\ UNCHANGED << envVars, repoVars, nextId, undoVars, tasks, autoPending, disposed, autoHistory >>

\* a removal callback that lets the failure of its persist escape
FadeFire_rethrows(t) ==
    LET key == buildKey(t.scope, t.todoId)
        todos == readTodos(t.scope)
        next == SeqFilterIdNot(todos, t.todoId)
    IN  /\ t \in live
        /\ t.kind = "removal"
        /\ live' = live \ {t}
        /\ timers' = MapDelete(timers, key)
        /\ IF Len(next) = Len(todos)
           THEN /\ out' = <<>>
                /\ UNCHANGED << repoVars, autoPending >>
           ELSE \E ok \in SaveOutcomes :
                   IF ok
                   THEN /\ persistTodos(t.scope, next)
                        /\ autoPending' = autoPending \cup { [scope |-> t.scope, todoId |-> t.todoId] }
                        /\ out' = <<>>
                   ELSE /\ UNCHANGED << repoVars, autoPending >>
                        /\ out' = Rejected
        /\ reopened' = reopened \ {key}
        /\ Touched({key})
        /\ Interleaves
        /\ UNCHANGED << envVars, nextId, undoVars, tasks, disposed >>

\* a removal callback that goes through the capture of removeTodoWithUndo
FadeFire_withUndo(t) ==
    LET key == buildKey(t.scope, t.todoId)
        todos == readTodos(t.scope)
        next == SeqFilterIdNot(todos, t.todoId)
    IN  /\ t \in live
        /\ t.kind = "removal"
        /\ live' = live \ {t}
        /\ timers' = MapDelete(timers, key)
        /\ IF Len(next) = Len(todos)
           THEN /\ out' = <<>>
                /\ UNCHANGED << repoVars, autoPending, snapshots >>
           ELSE /\ captureSnapshot(SnapshotKey(t.scope), todos)
                /\ persistTodos(t.scope, next)
                /\ autoPending' = autoPending \cup { [scope |-> t.scope, todoId |-> t.todoId] }
                /\ out' = <<>>
        /\ reopened' = reopened \ {key}
        /\ Touched({key})
        /\ Interleaves
        /\ UNCHANGED << envVars, nextId, expiry, recent, tasks, disposed >>

\* the removal callback of schedule with removeTodoWithoutUndo up to its await
FadeFire(t) ==
    LET key == buildKey(t.scope, t.todoId)
        todos == readTodos(t.scope)
        next == SeqFilterIdNot(todos, t.todoId)
    IN  /\ t \in live
        /\ t.kind = "removal"
        /\ live' = live \ {t}
        /\ timers' = MapDelete(timers, key)
        /\ IF Len(next) = Len(todos)
           THEN /\ out' = <<>>
                /\ UNCHANGED << repoVars, autoPending >>
           ELSE \E ok \in SaveOutcomes :
                   IF ok
                   THEN /\ persistTodos(t.scope, next)
                        /\ autoPending' = autoPending \cup { [scope |-> t.scope, todoId |-> t.todoId] }
                        /\ out' = <<>>
                   ELSE /\ UNCHANGED << repoVars, autoPending >>
                        /\ out' = << Msg("console.error") >>
        /\ reopened' = reopened \ {key}
        /\ Touched({key})
        /\ Interleaves
        /\ UNCHANGED << envVars, nextId, undoVars, tasks, disposed >>

\* removeTodoWithoutUndo after its await: broadcast
AutoDeleteResume(p) ==
    /\ p \in autoPending
    /\ autoPending' = autoPending \ { p }
    /\ out' = << StateUpdate >>
    /\ Interleaves
    /\ UNCHANGED << envVars, repoVars, nextId, undoVars, timerVars, tasks, disposed, autoHistory >>

\* ------------------------------------------------ remove and clear with undo
\* a capture of the list as it is after the removal
CapturedList_after(todos, next) == next

\* the list removeTodoWithUndo hands to captureSnapshot: the one it has read
CapturedList(todos, next) == todos

\* a snapshot-expiry callback that leaves the snapshot stored
ExpireSnapshot_idle ==
    /\ expiry # <<>>
    /\ LET e == Head(expiry)
       IN  recent' = IF e.mine /\ recent[e.key].status = "dismissed"
                     THEN [recent EXCEPT ![e.key].status = "elapsed"]
                     ELSE recent
    /\ expiry' = Tail(expiry)
    /\ out' = <<>>
    /\ solo' = 0
    /\ UNCHANGED << envVars, repoVars, snapshots, nextId, timerVars, tasks, autoPending, disposed, autoHistory >>

\* a removeTodoWithUndo that cancels and captures before it looks the todo up
RemoveBody_eager(tid, target, todoId) ==
    LET todos == readTodos(target)
        next == SeqFilterIdNot(todos, todoId)
        key == SnapshotKey(target)
    IN  IF ~HasTodo(todos, todoId)
        THEN /\ cancel(target, todoId)
             /\ captureSnapshot(key, todos)
             /\ Finish(tid)
             /\ out' = <<>>
             /\ Interleaves
             /\ UNCHANGED << repoVars, expiry, recent, untouched >>
        ELSE /\ cancel(target, todoId)
             /\ Touched({buildKey(target, todoId)})
             /\ captureSnapshot(key, CapturedList(todos, next))
             /\ \E ok \in SaveOutcomes :
                   IF ok
                   THEN /\ persistTodos(target, next)
                        /\ Suspend(tid, "remove_await", target, todoId, todos, FALSE, "remove")
                        /\ Captured(key, tid, "open")
                        /\ out' = <<>>
                        /\ Starts(tid)
                   ELSE /\ UNCHANGED repoVars
                        /\ Finish(tid)
                        /\ Captured(key, tid, "failed")
                        /\ out' = Rejected
                        /\ Interleaves

\* removeTodoWithUndo from readTodos up to the await of its persist
RemoveBody(tid, target, todoId) ==
    LET todos == readTodos(target)
        next == SeqFilterIdNot(todos, todoId)
        key == SnapshotKey(target)
    IN  IF ~HasTodo(todos, todoId)
        THEN /\ Finish(tid)
             /\ out' = <<>>
             /\ Interleaves
             /\ UNCHANGED << repoVars, undoVars, timerVars, untouched >>
        ELSE /\ cancel(target, todoId)
             /\ Touched({buildKey(target, todoId)})
             /\ captureSnapshot(key, CapturedList(todos, next))
             /\ \E ok \in SaveOutcomes :
                   IF ok
                   THEN /\ persistTodos(target, next)
                        /\ Suspend(tid, "remove_await", target, todoId, todos, FALSE, "remove")
                        /\ Captured(key, tid, "open")
                        /\ out' = <<>>
                        /\ Starts(tid)
                   ELSE /\ UNCHANGED repoVars
                        /\ Finish(tid)
                        /\ Captured(key, tid, "failed")
                        /\ out' = Rejected
                        /\ Interleaves

\* handleWebviewMessage, type removeTodo: handleWebviewRemoveWithUndo
RemoveTodo(scope, todoId) ==
    LET target == scopeFromWebviewScope(scope)
    IN  /\ ~disposed
        /\ IF target = NoScope
           THEN NoEffect
           ELSE /\ HasFreeSlot
                /\ RemoveBody(FreeSlot, target, todoId)
                /\ UNCHANGED << envVars, nextId, autoPending, disposed, reopened >>

\* removeTodoWithUndo after its persist: broadcast, then offer undo
RemoveResume(tid) ==
    LET t == tasks[tid]
    IN  /\ t.pc = "remove_await"
        /\ tasks' = [tasks EXCEPT ![tid].pc = "remove_prompt"]
        /\ out' = << StateUpdate, Msg("undoPrompt") >>
        /\ Continues(tid)
        /\ UNCHANGED << envVars, repoVars, nextId, undoVars, timerVars, autoPending, disposed, autoHistory >>

\* the undo branch shared by removeTodoWithUndo and clearScope: consumeSnapshot,
\* then persist the snapshot up to the await
UndoAccepted(tid) ==
    LET t == tasks[tid]
        key == SnapshotKey(t.scope)
    IN  /\ consumeSnapshot(key)
        /\ Answered(key, tid, "accepted")
        /\ IF SnapshotsOf(key) = {}
           THEN /\ Finish(tid)
                /\ out' = <<>>
                /\ UNCHANGED << repoVars, untouched >>
           ELSE \E s \in SnapshotsOf(key) : \E ok \in SaveOutcomes :
                   IF ok
                   THEN /\ persistTodos(t.scope, s.todos)
                        /\ tasks' = [tasks EXCEPT ![tid].pc = "restore_await"]
                        /\ out' = <<>>
                        /\ Touched(KeysOfScope(t.scope))
                   ELSE /\ UNCHANGED << repoVars, untouched >>
                        /\ Finish(tid)
                        /\ out' = Rejected
        /\ UNCHANGED << envVars, nextId, expiry, timerVars, autoPending, disposed, reopened >>

\* the other branch: the prompt was dismissed, the snapshot expires after the TTL
UndoDismissed(tid) ==
    LET t == tasks[tid]
        key == SnapshotKey(t.scope)
    IN  /\ Len(expiry) < MaxExpiry
        /\ expiry' = Append(expiry, [key |-> key, ms |-> UNDO_SNAPSHOT_TTL_MS, mine |-> MostRecent(key, tid)])
        /\ Answered(key, tid, "dismissed")
        /\ Finish(tid)
        /\ out' = <<>>
        /\ Interleaves
        /\ UNCHANGED << envVars, repoVars, snapshots, nextId, timerVars, autoPending, disposed, autoHistory >>

\* removeTodoWithUndo: undoSelection === undoAction
RemoveUndo(tid) ==
    /\ tasks[tid].pc = "remove_prompt"
    /\ UndoAccepted(tid)
    /\ Continues(tid)

\* removeTodoWithUndo: the else branch
RemoveDismiss(tid) ==
    /\ tasks[tid].pc = "remove_prompt"
    /\ UndoDismissed(tid)

\* after the await of the restoring persist: notice and broadcast
RestoreResume(tid) ==
    LET t == tasks[tid]
    IN  /\ t.pc = "restore_await"
        /\ Finish(tid)
        /\ out' = << Msg("info"), StateUpdate >>
        /\ Interleaves
        /\ UNCHANGED << envVars, repoVars, nextId, undoVars, timerVars, autoPending, disposed, autoHistory >>

\* the snapshot-expiry callback: consumeSnapshot(scopeKey). The timeouts share
\* one TTL, so they fire in the order they were set.
ExpireSnapshot ==
    /\ expiry # <<>>
    /\ LET e == Head(expiry)
       IN  /\ consumeSnapshot(e.key)
           /\ recent' = IF e.mine /\ recent[e.key].status = "dismissed"
                        THEN [recent EXCEPT ![e.key].status = "elapsed"]
                        ELSE recent
    /\ expiry' = Tail(expiry)
    /\ out' = <<>>
    /\ Interleaves
    /\ UNCHANGED << envVars, repoVars, nextId, timerVars, tasks, autoPending, disposed, autoHistory >>

\* clearScope from captureSnapshot up to the await of its persist
ClearCommit(tid, scope, todos) ==
    LET key == SnapshotKey(scope)
    IN  /\ captureSnapshot(key, todos)
        /\ \E ok \in SaveOutcomes :
              IF ok
              THEN /\ persistTodos(scope, <<>>)
                   /\ Suspend(tid, "clear_await", scope, NoTodo, todos, FALSE, "clear")
                   /\ Captured(key, tid, "open")
                   /\ Touched(KeysOfScope(scope))
                   /\ out' = <<>>
              ELSE /\ UNCHANGED repoVars
                   /\ Finish(tid)
                   /\ Captured(key, tid, "failed")
                   /\ Touched({ buildKey(scope, todos[i].id) : i \in 1..Len(todos) })
                   /\ out' = Rejected

\* a clearScope that asks for confirmation whatever the setting and the count
ClearBody_confirmsAll(tid, scope) ==
    LET todos == readTodos(scope)
    IN  IF Len(todos) = 0
        THEN /\ Finish(tid)
             /\ out' = << Msg("info") >>
             /\ UNCHANGED << repoVars, undoVars, timerVars, untouched >>
        ELSE /\ cancelScope(scope, todos)
             /\ Suspend(tid, "clear_confirm", scope, NoTodo, todos, FALSE, "clear")
             /\ out' = << Msg("confirmPrompt") >>
             /\ Touched({ buildKey(scope, todos[i].id) : i \in 1..Len(todos) })
             /\ UNCHANGED << repoVars, undoVars >>

\* a clearScope without the short cut for the empty list
ClearBody_clearsEmpty(tid, scope) ==
    LET todos == readTodos(scope)
    IN  /\ cancelScope(scope, todos)
        /\ IF config.confirmDestructiveActions /\ Len(todos) > 1
           THEN /\ Suspend(tid, "clear_confirm", scope, NoTodo, todos, FALSE, "clear")
                /\ out' = << Msg("confirmPrompt") >>
                /\ Touched({ buildKey(scope, todos[i].id) : i \in 1..Len(todos) })
                /\ UNCHANGED << repoVars, undoVars >>
           ELSE ClearCommit(tid, scope, todos)

\* clearScope from readTodos up to its first await
ClearBody(tid, scope) ==
    LET todos == readTodos(scope)
    IN  IF Len(todos) = 0
        THEN /\ Finish(tid)
             /\ out' = << Msg("info") >>
             /\ UNCHANGED << repoVars, undoVars, timerVars, untouched >>
        ELSE /\ cancelScope(scope, todos)
             /\ IF config.confirmDestructiveActions /\ Len(todos) > 1
                THEN /\ Suspend(tid, "clear_confirm", scope, NoTodo, todos, FALSE, "clear")
                     /\ out' = << Msg("confirmPrompt") >>
                     /\ Touched({ buildKey(scope, todos[i].id) : i \in 1..Len(todos) })
                     /\ UNCHANGED << repoVars, undoVars >>
                ELSE ClearCommit(tid, scope, todos)

\* handleWebviewMessage, type clearScope
ClearScope(scope) ==
    LET target == scopeFromWebviewScope(scope)
    IN  /\ ~disposed
        /\ IF target = NoScope
           THEN NoEffect
           ELSE /\ HasFreeSlot
                /\ ClearBody(FreeSlot, target)
                /\ Interleaves
                /\ UNCHANGED << envVars, nextId, autoPending, disposed, reopened >>

\* clearScope after the confirmation dialog
ClearConfirm(tid, confirmed) ==
    LET t == tasks[tid]
    IN  /\ t.pc = "clear_confirm"
        /\ IF confirmed
           THEN ClearCommit(tid, t.scope, t.todos)
           ELSE /\ Finish(tid)
                /\ out' = <<>>
                /\ UNCHANGED << repoVars, undoVars, untouched >>
        /\ Interleaves
        /\ UNCHANGED << envVars, nextId, timerVars, autoPending, disposed, reopened >>

\* clearScope after its persist: broadcast, then offer undo
ClearResume(tid) ==
    LET t == tasks[tid]
    IN  /\ t.pc = "clear_await"
        /\ tasks' = [tasks EXCEPT ![tid].pc = "clear_prompt"]
        /\ out' = << StateUpdate, Msg("undoPrompt") >>
        /\ Interleaves
        /\ UNCHANGED << envVars, repoVars, nextId, undoVars, timerVars, autoPending, disposed, autoHistory >>

\* clearScope: undoSelection === undoAction
ClearUndo(tid) ==
    /\ tasks[tid].pc = "clear_prompt"
    /\ UndoAccepted(tid)
    /\ Interleaves

\* clearScope: the else branch
ClearDismiss(tid) ==
    /\ tasks[tid].pc = "clear_prompt"
    /\ UndoDismissed(tid)

\* ------------------------------------------------ commands
\* A command holds no state while its quick pick is open: it reads the
\* repository only after the pick has resolved. Each command is therefore one
\* step from the resolution of its quick pick up to its next await.
\* what resolveTodoTarget resolves to: an item, or undefined when dismissed
TodoTargets == { [scope |-> s.scope, workspaceFolder |-> s.workspaceFolder, todoId |-> id] : s \in Scopes, id \in TodoIds }
NoPick == [scope |-> "undefined", workspaceFolder |-> NoFolder, todoId |-> NoTodo]
TodoPicks == TodoTargets \cup {NoPick}
\* what resolveScopeTarget resolves to
ScopePicks == Scopes \cup {NoScope}

\* resolveTodoTarget returned undefined: no todo to pick, or the pick dismissed
Unresolved(target) ==
    /\ PickCount = 0 \/ target = NoPick
    /\ out' = IF PickCount = 0 THEN << Msg("info") >> ELSE <<>>
    /\ Interleaves
    /\ UNCHANGED << envVars, repoVars, nextId, undoVars, timerVars, tasks,
                    autoPending, disposed, autoHistory >>

\* todo.completeTodo: toggleTodoCompletion up to the await of its persist
CompleteTodo(target) ==
    /\ ~disposed
    /\ \/ Unresolved(target)
       \/ /\ PickCount > 0 /\ target # NoPick
          /\ HasFreeSlot
          /\ IF todoTargetToScopeTarget(target) = NoScope
             THEN /\ out' = <<>>
                  /\ UNCHANGED << repoVars, tasks, autoHistory >>
             ELSE ToggleBody(FreeSlot, todoTargetToScopeTarget(target), target.todoId, "command")
          /\ Interleaves
          /\ UNCHANGED << envVars, nextId, undoVars, timerVars, autoPending, disposed >>

\* todo.removeTodo: removeTodo with removeTodoWithUndo up to the await of its persist
RemoveTodoCommand(target) ==
    /\ ~disposed
    /\ \/ Unresolved(target)
       \/ /\ PickCount > 0 /\ target # NoPick
          /\ HasFreeSlot
          /\ IF todoTargetToScopeTarget(target) = NoScope
             THEN /\ out' = <<>>
                  /\ Interleaves
                  /\ UNCHANGED << repoVars, undoVars, timerVars, tasks, untouched >>
             ELSE RemoveBody(FreeSlot, todoTargetToScopeTarget(target), target.todoId)
          /\ UNCHANGED << envVars, nextId, autoPending, disposed, reopened >>

\* todo.clearTodos: clearTodos with clearScope up to its first await
ClearTodos(scope) ==
    /\ ~disposed
    /\ IF scope = NoScope
       THEN NoEffect
       ELSE /\ HasFreeSlot
            /\ ClearBody(FreeSlot, scope)
            /\ Interleaves
            /\ UNCHANGED << envVars, nextId, autoPending, disposed, reopened >>

\* todo.editTodo up to the await of focusTodoContainer
EditTodo(target) ==
    LET scope == [scope |-> target.scope, workspaceFolder |-> target.workspaceFolder]
    IN  /\ ~disposed
        /\ \/ Unresolved(target)
           \/ /\ PickCount > 0 /\ target # NoPick
              /\ HasFreeSlot
              /\ IF HasTodo(readTodos(scope), target.todoId)
                 THEN Suspend(FreeSlot, "focus_edit", scope, target.todoId, <<>>, FALSE, "command")
                 ELSE UNCHANGED tasks
              /\ out' = <<>>
              /\ Interleaves
              /\ UNCHANGED << envVars, repoVars, nextId, undoVars, timerVars, autoPending, disposed, autoHistory >>

\* todo.addTodo up to the await of focusTodoContainer
AddTodo(scope) ==
    /\ ~disposed
    /\ IF scope = NoScope
       THEN NoEffect
       ELSE /\ HasFreeSlot
            /\ Suspend(FreeSlot, "focus_add", scope, NoTodo, <<>>, FALSE, "command")
            /\ out' = <<>>
            /\ Interleaves
            /\ UNCHANGED << envVars, repoVars, nextId, undoVars, timerVars, autoPending, disposed, autoHistory >>

\* addTodo / editTodo after focusTodoContainer: broadcast and start the inline editor
FocusResume(tid) ==
    LET t == tasks[tid]
    IN  /\ t.pc \in { "focus_add", "focus_edit" }
        /\ Finish(tid)
        /\ out' = << StateUpdate,
                     [type |-> IF t.pc = "focus_add" THEN "startInlineCreate" ELSE "startInlineEdit",
                      scope |-> t.scope, todoId |-> t.todoId, durationMs |-> 0] >>
        /\ Interleaves
        /\ UNCHANGED << envVars, repoVars, nextId, undoVars, timerVars, autoPending, disposed, autoHistory >>

\* ------------------------------------------------ tree drag and drop
NoTarget == [kind |-> "none", id |-> NoTodo, workspaceFolder |-> NoFolder]
\* the nodes a todo may be dropped on: none, a folder, a todo next to it
DropTargets(dragged) ==
    { NoTarget, [kind |-> "workspace", id |-> NoTodo, workspaceFolder |-> "wB"] }
        \cup { [kind |-> "todo", id |-> i, workspaceFolder |-> dragged.workspaceFolder] : i \in TodoIds \ {dragged.todoId} }

\* TodoTreeDragAndDropController.resolveWorkspaceKey, NoFolder for undefined
resolveWorkspaceKey(target) ==
    IF target.kind = "none" THEN NoFolder ELSE target.workspaceFolder

\* todos.forEach((todo, index) => todo.position = index + 1)
Renumbered(todos) == [i \in 1..Len(todos) |-> [todos[i] EXCEPT !.position = i]]

\* the list TodoTreeDragAndDropController.reorderTodos saves
DropResult(todos, draggedId, target) ==
    LET draggedIndex == IndexOfTodo(todos, draggedId)
        dragged == todos[draggedIndex]
        others == SeqFilterIdNot(todos, draggedId)
        found == IF target.kind = "todo" THEN IndexOfTodo(others, target.id) ELSE 0
        insertIndex == IF found = 0 THEN Len(others) + 1 ELSE found
    IN  Renumbered(SubSeq(others, 1, insertIndex - 1) \o <<dragged>> \o SubSeq(others, insertIndex, Len(others)))

\* the partition a drop in the given view mode writes, NoScope when refused
DropScope(mode, dragged, target) ==
    LET folderKey == IF resolveWorkspaceKey(target) # NoFolder THEN resolveWorkspaceKey(target) ELSE dragged.workspaceFolder
        refused == IF mode = "global" THEN dragged.scope # "global"
                   ELSE dragged.scope # "workspace" \/ dragged.workspaceFolder = NoFolder \/ folderKey # dragged.workspaceFolder
    IN  IF refused THEN NoScope
        ELSE IF mode = "global" THEN GlobalScope ELSE WorkspaceScope(folderKey)

\* TodoTreeDragAndDropController.handleDrop with reorderTodos up to its await
TreeDrop(mode, dragged, target) ==
    LET scope == DropScope(mode, dragged, target)
    IN  /\ ~disposed
        /\ IF scope = NoScope \/ ~HasTodo(readTodos(scope), dragged.todoId)
           THEN NoEffect
           ELSE /\ HasFreeSlot
                /\ \E ok \in SaveOutcomes :
                      IF ok
                      THEN /\ IF mode = "global"
                              THEN saveGlobalTodos(DropResult(readTodos(scope), dragged.todoId, target))
                              ELSE saveWorkspaceTodos(scope.workspaceFolder, DropResult(readTodos(scope), dragged.todoId, target))
                           /\ Suspend(FreeSlot, "drop_await", scope, NoTodo, <<>>, FALSE, "tree")
                           /\ out' = <<>>
                      ELSE /\ UNCHANGED << repoVars, tasks >>
                           /\ out' = Rejected
                /\ Interleaves
                /\ UNCHANGED << envVars, nextId, undoVars, timerVars, autoPending, disposed, autoHistory >>

\* reorderTodos of the tree after its await: provider.refresh()
TreeDropResume(tid) ==
    /\ tasks[tid].pc = "drop_await"
    /\ Finish(tid)
    /\ out' = << Msg("refresh") >>
    /\ Interleaves
    /\ UNCHANGED << envVars, repoVars, nextId, undoVars, timerVars, autoPending, disposed, autoHistory >>

\* ------------------------------------------------ teardown
\* disposal of context.subscriptions: the webview host, the message
\* subscription, the coordinator and the commands
Dispose ==
    /\ ~disposed
    /\ disposed' = TRUE
    /\ dispose
    /\ untouched' = {}
    /\ out' = <<>>
    /\ Interleaves
    /\ UNCHANGED << envVars, repoVars, nextId, undoVars, tasks, autoPending, reopened >>

\* ------------------------------------------------ specification
\* the settings a behaviour runs under
Config(autoDelete, confirm, delay, fade) ==
    [autoDeleteCompleted |-> autoDelete, confirmDestructiveActions |-> confirm,
     autoDeleteDelayMs |-> delay, autoDeleteFadeMs |-> fade]
\* the defaults of package.json
DefaultConfig == Config(TRUE, TRUE, Num(DEFAULT_AUTO_DELETE_DELAY_MS), Num(DEFAULT_AUTO_DELETE_FADE_MS))

\* activate(): empty repository, no timers, the first broadcast
InitWith(configs, mayFail, ids, slots, track) ==
    /\ config \in configs
    /\ faulty = mayFail
    /\ cap = [ids |-> ids, slots |-> slots, track |-> track]
    /\ globalTodos = <<>>
    /\ workspaceTodos = [f \in Folders |-> <<>>]
    /\ snapshots = {}
    /\ nextId = 1
    /\ timers = << >>
    /\ live = {}
    /\ expiry = <<>>
    /\ tasks = [t \in 1..slots |-> Idle]
    /\ autoPending = {}
    /\ disposed = FALSE
    /\ out = << StateUpdate >>
    /\ solo = 0
    /\ recent = [k \in SnapshotKeys |-> [slot |-> 0, status |-> "none"]]
    /\ reopened = {}
    /\ untouched = {}
    /\ HostInit

Init == InitWith({DefaultConfig}, FALSE, MaxIds, MaxTasksAll, {})

\* steps of suspended handlers
ResumeStep ==
    \/ \E tid \in Slots : MutationResume(tid)
    \/ \E tid \in Slots : ToggleResume(tid)
    \/ \E tid \in Slots : RemoveResume(tid)
    \/ \E tid \in Slots : RemoveUndo(tid)
    \/ \E tid \in Slots : RemoveDismiss(tid)
    \/ \E tid \in Slots : RestoreResume(tid)
    \/ \E tid \in Slots, confirmed \in BOOLEAN : ClearConfirm(tid, confirmed)
    \/ \E tid \in Slots : ClearResume(tid)
    \/ \E tid \in Slots : ClearUndo(tid)
    \/ \E tid \in Slots : ClearDismiss(tid)
    \/ \E p \in autoPending : AutoDeleteResume(p)

\* timer callbacks
TimerStep ==
    \/ \E t \in live : DelayFire(t)
    \/ \E t \in live : FadeFire(t)
    \/ ExpireSnapshot

\* steps of the webview messages
MessageStep ==
    \/ WebviewReady
    \/ \E s \in WebviewScopes, title \in CreateTitles : CommitCreate(s, title)
    \/ \E s \in WebviewScopes, id \in TodoIds, title \in EditTitles : CommitEdit(s, id, title)
    \/ \E s \in WebviewScopes, order \in SomeOrders : ReorderTodos(s, order)
    \/ \E s \in WebviewScopes, id \in TodoIds : ToggleComplete(s, id)
    \/ \E s \in WebviewScopes, id \in TodoIds : RemoveTodo(s, id)
    \/ \E s \in WebviewScopes : ClearScope(s)

\* steps of the commands
CommandStep ==
    \/ \E target \in TodoPicks : CompleteTodo(target)
    \/ \E target \in TodoPicks : RemoveTodoCommand(target)
    \/ \E target \in TodoPicks : EditTodo(target)
    \/ \E s \in ScopePicks : AddTodo(s)
    \/ \E s \in ScopePicks : ClearTodos(s)
    \/ \E tid \in Slots : FocusResume(tid)

\* tree drag and drop
TreeStep ==
    \/ \E mode \in {"global", "projects"}, dragged \in TodoTargets : \E target \in DropTargets(dragged) : TreeDrop(mode, dragged, target)
    \/ \E tid \in Slots : TreeDropResume(tid)

\* every entry point of the extension
Next ==
    \/ MessageStep
    \/ CommandStep
    \/ ResumeStep
    \/ TimerStep
    \/ TreeStep
    \/ Dispose

Spec == Init /\ [][Next]_vars

\* ------------------------------------------------ the undo flows
\* The destructive actions and their undo, on the global list and one folder,
\* with two handlers in flight and auto-delete switched off.
UndoScopes == { GlobalScope, WorkspaceScope("wA") }
UndoTargets == { t \in TodoTargets : todoTargetToScopeTarget(t) \in UndoScopes }
UndoConfig == Config(FALSE, TRUE, Num(DEFAULT_AUTO_DELETE_DELAY_MS), Num(DEFAULT_AUTO_DELETE_FADE_MS))

InitUndo == InitWith({UndoConfig}, FALSE, MaxIds, MaxTasks, {"undo"})

NextUndo ==
    \/ \E s \in UndoScopes, title \in CreateTitles : CommitCreate(s, title)
    \/ \E s \in UndoScopes, id \in TodoIds : ToggleComplete(s, id)
    \/ \E s \in UndoScopes, id \in TodoIds : RemoveTodo(s, id)
    \/ \E s \in UndoScopes : ClearScope(s)
    \/ \E target \in UndoTargets : RemoveTodoCommand(target)
    \/ \E s \in UndoScopes : ClearTodos(s)
    \/ \E tid \in Slots : MutationResume(tid)
    \/ \E tid \in Slots : ToggleResume(tid)
    \/ \E tid \in Slots : RemoveResume(tid)
    \/ \E tid \in Slots : RemoveUndo(tid)
    \/ \E tid \in Slots : RemoveDismiss(tid)
    \/ \E tid \in Slots : RestoreResume(tid)
    \/ \E tid \in Slots, confirmed \in BOOLEAN : ClearConfirm(tid, confirmed)
    \/ \E tid \in Slots : ClearResume(tid)
    \/ \E tid \in Slots : ClearUndo(tid)
    \/ \E tid \in Slots : ClearDismiss(tid)
    \/ ExpireSnapshot

SpecUndo == InitUndo /\ [][NextUndo]_vars

\* The same with a storage collaborator that may fail any write.
InitUndoFaulty == InitWith({UndoConfig}, TRUE, MaxIds, MaxTasksAll, {"undo"})

SpecUndoFaulty == InitUndoFaulty /\ [][NextUndo]_vars

\* ------------------------------------------------ the auto-delete flows
\* Auto-delete enabled, in the global scope and one folder, with the toggles,
\* the removals with undo and the timer callbacks; one configuration has the
\* defaults, the other settings that sanitizeDelay replaces or keeps.
AutoScopes == { GlobalScope, WorkspaceScope("wA") }
AutoConfigs ==
    { DefaultConfig,
      Config(TRUE, TRUE, Num(0), NotANumber) }

InitAuto == InitWith(AutoConfigs, FALSE, MaxIds, MaxTasksAll, {"auto"})

NextAuto ==
    \/ \E s \in AutoScopes, title \in CreateTitles : CommitCreate(s, title)
    \/ \E s \in AutoScopes, id \in TodoIds : ToggleComplete(s, id)
    \/ \E s \in AutoScopes, id \in TodoIds : RemoveTodo(s, id)
    \/ \E tid \in Slots : MutationResume(tid)
    \/ \E tid \in Slots : ToggleResume(tid)
    \/ \E tid \in Slots : RemoveResume(tid)
    \/ \E tid \in Slots : RemoveUndo(tid)
    \/ \E tid \in Slots : RemoveDismiss(tid)
    \/ \E tid \in Slots : RestoreResume(tid)
    \/ \E t \in live : DelayFire(t)
    \/ \E t \in live : FadeFire(t)
    \/ \E p \in autoPending : AutoDeleteResume(p)
    \/ ExpireSnapshot

SpecAuto == InitAuto /\ [][NextAuto]_vars

\* a timeout that is set and not cleared fires: the callbacks of the timeouts
\* of one todo
TimerOf(scope, todoId) ==
    \E t \in live : t.scope = scope /\ t.todoId = todoId /\ (DelayFire(t) \/ FadeFire(t))

SpecAutoFair ==
    /\ SpecAuto
    /\ \A scope \in AutoScopes, todoId \in TodoIds : WF_vars(TimerOf(scope, todoId))

\* The auto-delete flows with a storage collaborator that may fail any write.
InitAutoFaulty == InitWith(AutoConfigs, TRUE, MaxIds, MaxTasksAll, {})

SpecAutoFaulty == InitAutoFaulty /\ [][NextAuto]_vars

\* ------------------------------------------------ the coordinator
\* The callers of schedule and cancel with overlapping toggles, the timer
\* callbacks, and the user changing the `todo` settings in between: the
\* coordinator reads the configuration anew on every schedule.
CoordinatorConfigs == { DefaultConfig, UndoConfig }

\* the user edits the settings
ConfigChange(c) ==
    /\ config # c
    /\ config' = c
    /\ out' = <<>>
    /\ Interleaves
    /\ UNCHANGED << faulty, cap, hostVars, repoVars, nextId, undoVars, timerVars, tasks,
                    autoPending, disposed, autoHistory >>

InitCoordinator == InitWith({DefaultConfig}, FALSE, MaxIds, MaxTasks, {})

NextCoordinator ==
    \/ \E s \in AutoScopes, title \in CreateTitles : CommitCreate(s, title)
    \/ \E s \in AutoScopes, id \in TodoIds : ToggleComplete(s, id)
    \/ \E tid \in Slots : MutationResume(tid)
    \/ \E tid \in Slots : ToggleResume(tid)
    \/ \E t \in live : DelayFire(t)
    \/ \E t \in live : FadeFire(t)
    \/ \E p \in autoPending : AutoDeleteResume(p)
    \/ \E c \in CoordinatorConfigs : ConfigChange(c)

SpecCoordinator == InitCoordinator /\ [][NextCoordinator]_vars


\* ------------------------------------------------ clear-scope with auto-delete
\* clearScope from the webview and from the command, with and without the
\* confirmation setting, while toggles and the coordinator's timers run; two
\* handlers may be suspended at a time, so that a toggle can run while the
\* confirmation dialog of a clear is open.
ClearScopes == { GlobalScope }
NoConfirmConfig == Config(TRUE, FALSE, Num(DEFAULT_AUTO_DELETE_DELAY_MS), Num(DEFAULT_AUTO_DELETE_FADE_MS))
ClearConfigs == { DefaultConfig, NoConfirmConfig }

InitClear == InitWith(ClearConfigs, FALSE, MaxIds, MaxTasks, {})

NextClear ==
    \/ \E s \in ClearScopes, title \in CreateTitles : CommitCreate(s, title)
    \/ \E s \in ClearScopes, id \in TodoIds : ToggleComplete(s, id)
    \/ \E s \in ClearScopes : ClearScope(s)
    \/ \E s \in ClearScopes : ClearTodos(s)
    \/ \E tid \in Slots : MutationResume(tid)
    \/ \E tid \in Slots : ToggleResume(tid)
    \/ \E tid \in Slots, confirmed \in BOOLEAN : ClearConfirm(tid, confirmed)
    \/ \E tid \in Slots : ClearResume(tid)
    \/ \E tid \in Slots : ClearUndo(tid)
    \/ \E tid \in Slots : ClearDismiss(tid)
    \/ \E tid \in Slots : RestoreResume(tid)
    \/ ExpireSnapshot
    \/ \E t \in live : DelayFire(t)
    \/ \E t \in live : FadeFire(t)
    \/ \E p \in autoPending : AutoDeleteResume(p)

SpecClear == InitClear /\ [][NextClear]_vars


\* ------------------------------------------------ undo with auto-delete
\* Removals with undo in one scope while toggles and the coordinator's timers
\* run; two handlers may be suspended at a time, so that a toggle can run
\* while the undo prompt of a removal is open.
NextRestore ==
    \/ \E s \in ClearScopes, title \in CreateTitles : CommitCreate(s, title)
    \/ \E s \in ClearScopes, id \in TodoIds : ToggleComplete(s, id)
    \/ \E s \in ClearScopes, id \in TodoIds : RemoveTodo(s, id)
    \/ \E tid \in Slots : MutationResume(tid)
    \/ \E tid \in Slots : ToggleResume(tid)
    \/ \E tid \in Slots : RemoveResume(tid)
    \/ \E tid \in Slots : RemoveUndo(tid)
    \/ \E tid \in Slots : RemoveDismiss(tid)
    \/ \E tid \in Slots : RestoreResume(tid)
    \/ ExpireSnapshot
    \/ \E t \in live : DelayFire(t)
    \/ \E t \in live : FadeFire(t)
    \/ \E p \in autoPending : AutoDeleteResume(p)

SpecRestore == InitCoordinator /\ [][NextRestore]_vars


\* ------------------------------------------------ reorder
\* The reorderTodos message on a stored list of up to MaxReorder todos, with
\* order arrays that name todos of the list, repeat ids and name an id the
\* list does not hold.
ReorderIds == 1..MaxReorder
UnknownId == MaxReorder + 1
\* the stored lists: distinct ids, positions 1..N as persistTodos leaves them
ReorderLists ==
    UNION { { [i \in 1..n |-> [id |-> ids[i], title |-> << "a" >>, completed |-> done[i], position |-> i]] :
                ids \in { f \in [1..n -> ReorderIds] : \A i \in 1..n, j \in 1..n : f[i] = f[j] => i = j },
                done \in [1..n -> BOOLEAN] } : n \in 0..MaxReorder }
ReorderOrders == UNION { [1..n -> ReorderIds \cup {UnknownId}] : n \in 0..MaxReorder }

InitReorder ==
    /\ config = DefaultConfig
    /\ faulty = FALSE
    /\ cap = [ids |-> MaxReorder, slots |-> MaxTasksAll, track |-> {}]
    /\ globalTodos \in ReorderLists
    /\ workspaceTodos = [f \in Folders |-> <<>>]
    /\ snapshots = {}
    /\ nextId = UnknownId
    /\ timers = << >>
    /\ live = {}
    /\ expiry = <<>>
    /\ tasks = [t \in 1..MaxTasksAll |-> Idle]
    /\ autoPending = {}
    /\ disposed = FALSE
    /\ out = << StateUpdate >>
    /\ solo = 0
    /\ recent = [k \in SnapshotKeys |-> [slot |-> 0, status |-> "none"]]
    /\ reopened = {}
    /\ untouched = {}
    /\ HostInit

NextReorder ==
    \/ \E order \in ReorderOrders : ReorderTodos(GlobalScope, order)
    \/ \E tid \in Slots : MutationResume(tid)

SpecReorder == InitReorder /\ [][NextReorder]_vars


\* ------------------------------------------------ the webview messages
\* Every inbound message of the webview in two scopes, with the undo prompts
\* and the snapshot expiry; auto-delete is switched off. A persist that was
\* started resolves, so the continuation of a handler that awaits one runs.
InitMessages == InitWith({UndoConfig}, FALSE, MaxIds, MaxTasksAll, {})

NextMessages ==
    \/ WebviewReady
    \/ \E s \in AutoScopes, title \in CreateTitles : CommitCreate(s, title)
    \/ \E s \in AutoScopes, id \in TodoIds, title \in EditTitles : CommitEdit(s, id, title)
    \/ \E s \in AutoScopes, order \in SomeOrders : ReorderTodos(s, order)
    \/ \E s \in AutoScopes, id \in TodoIds : ToggleComplete(s, id)
    \/ \E s \in AutoScopes, id \in TodoIds : RemoveTodo(s, id)
    \/ \E s \in AutoScopes : ClearScope(s)
    \/ \E tid \in Slots : MutationResume(tid)
    \/ \E tid \in Slots : ToggleResume(tid)
    \/ \E tid \in Slots : RemoveResume(tid)
    \/ \E tid \in Slots : RemoveUndo(tid)
    \/ \E tid \in Slots : RemoveDismiss(tid)
    \/ \E tid \in Slots : RestoreResume(tid)
    \/ \E tid \in Slots, confirmed \in BOOLEAN : ClearConfirm(tid, confirmed)
    \/ \E tid \in Slots : ClearResume(tid)
    \/ \E tid \in Slots : ClearUndo(tid)
    \/ \E tid \in Slots : ClearDismiss(tid)
    \/ ExpireSnapshot

SpecMessages == InitMessages /\ [][NextMessages]_vars

\* the continuation of the handler in slot tid after the await of a persist
PersistResolved(tid) ==
    \/ MutationResume(tid)
    \/ ToggleResume(tid)
    \/ RemoveResume(tid)
    \/ ClearResume(tid)
    \/ RestoreResume(tid)

SpecMessagesFair ==
    /\ SpecMessages
    /\ \A tid \in 1..MaxTasksAll : WF_vars(PersistResolved(tid))


\* ------------------------------------------------ destructive calls on failing storage
\* removeTodo and clearScope of one scope on a storage collaborator that may
\* fail any write, while toggles and the coordinator's timers run.
InitDestructive == InitWith({DefaultConfig}, TRUE, MaxIds, MaxTasksAll, {})

NextDestructive ==
    \/ \E s \in ClearScopes, title \in CreateTitles : CommitCreate(s, title)
    \/ \E s \in ClearScopes, id \in TodoIds : ToggleComplete(s, id)
    \/ \E s \in ClearScopes, id \in TodoIds : RemoveTodo(s, id)
    \/ \E s \in ClearScopes : ClearScope(s)
    \/ \E tid \in Slots : MutationResume(tid)
    \/ \E tid \in Slots : ToggleResume(tid)
    \/ \E tid \in Slots : RemoveResume(tid)
    \/ \E tid \in Slots : RemoveUndo(tid)
    \/ \E tid \in Slots : RemoveDismiss(tid)
    \/ \E tid \in Slots : RestoreResume(tid)
    \/ \E tid \in Slots, confirmed \in BOOLEAN : ClearConfirm(tid, confirmed)
    \/ \E tid \in Slots : ClearResume(tid)
    \/ \E tid \in Slots : ClearUndo(tid)
    \/ \E tid \in Slots : ClearDismiss(tid)
    \/ \E t \in live : DelayFire(t)
    \/ \E t \in live : FadeFire(t)
    \/ \E p \in autoPending : AutoDeleteResume(p)
    \/ ExpireSnapshot

SpecDestructive == InitDestructive /\ [][NextDestructive]_vars


\* ------------------------------------------------ the webview host
\* The two providers of the host under every order of posts, views being
\* resolved, webviewReady messages and the disposal of the host.
NextHost ==
    \/ \E mode \in ProviderModes, type \in OutboundTypes : HostPostMessage(mode, type)
    \/ \E type \in OutboundTypes : HostBroadcast(type)
    \/ \E mode \in ProviderModes : ResolveWebviewView(mode)
    \/ \E mode \in ProviderModes : HostWebviewReady(mode)
    \/ HostDispose

SpecHost == Init /\ [][NextHost]_vars


\* ------------------------------------------------ the configured durations
\* Auto-delete in the global scope under every pair of a delay and a fade
\* setting from: zero, a positive number that is not the default, a negative
\* number, NaN, and a value that is not a number; the user may change the
\* settings while timers are pending.
DurationSettings == { Num(0), Num(200), Num(0 - 1), NotANumber, NonNumeric }
DurationConfigs == { Config(TRUE, TRUE, delay, fade) : delay, fade \in DurationSettings }

InitDurations == InitWith(DurationConfigs, FALSE, MaxIds, MaxTasksAll, {})

NextDurations ==
    \/ \E s \in ClearScopes, title \in CreateTitles : CommitCreate(s, title)
    \/ \E s \in ClearScopes, id \in TodoIds : ToggleComplete(s, id)
    \/ \E tid \in Slots : MutationResume(tid)
    \/ \E tid \in Slots : ToggleResume(tid)
    \/ \E t \in live : DelayFire(t)
    \/ \E t \in live : FadeFire(t)
    \/ \E p \in autoPending : AutoDeleteResume(p)
    \/ \E c \in DurationConfigs : ConfigChange(c)

SpecDurations == InitDurations /\ [][NextDurations]_vars

\* ------------------------------------------------ properties
\* the operation of this step targets the partition of scope s
OperationOn(s) ==
    \/ \E title \in CreateTitles : CommitCreate(s, title)
    \/ \E id \in TodoIds, title \in EditTitles : CommitEdit(s, id, title)
    \/ \E order \in SomeOrders : ReorderTodos(s, order)
    \/ \E id \in TodoIds : ToggleComplete(s, id) \/ RemoveTodo(s, id)
    \/ ClearScope(s)
    \/ \E target \in TodoTargets :
          /\ target.scope = s.scope /\ target.workspaceFolder = s.workspaceFolder
          /\ CompleteTodo(target) \/ RemoveTodoCommand(target) \/ EditTodo(target)
    \/ AddTodo(s)
    \/ ClearTodos(s)
    \/ \E tid \in Slots :
          /\ tasks[tid].scope = s
          /\ \/ MutationResume(tid) \/ ToggleResume(tid) \/ FocusResume(tid) \/ TreeDropResume(tid)
             \/ RemoveResume(tid) \/ RemoveUndo(tid) \/ RemoveDismiss(tid) \/ RestoreResume(tid)
             \/ ClearConfirm(tid, TRUE) \/ ClearConfirm(tid, FALSE)
             \/ ClearResume(tid) \/ ClearUndo(tid) \/ ClearDismiss(tid)
    \/ \E t \in live : t.scope = s /\ (DelayFire(t) \/ FadeFire(t))
    \/ \E p \in autoPending : p.scope = s /\ AutoDeleteResume(p)
    \/ \E mode \in {"global", "projects"}, dragged \in TodoTargets :
          \E target \in DropTargets(dragged) :
             DropScope(mode, dragged, target) = s /\ TreeDrop(mode, dragged, target)

\* C9: a command, webview message or timer callback that targets one scope
\* partition leaves the persisted list of every other partition as it was:
\* a step that changes the list of partition p is no operation on another
\* partition s.
C9_ScopeIsolation ==
    [][\A p \in Scopes : readTodos(p)' # readTodos(p) =>
          \A s \in Scopes \ {p} : ~OperationOn(s)]_vars

\* a clear has emptied folder wA while the sibling folder holds a todo
C9_Witness ==
    \E tid \in Slots :
       /\ tasks[tid].pc = "clear_await"
       /\ tasks[tid].scope = WorkspaceScope("wA")
       /\ tasks[tid].todos # <<>>
       /\ workspaceTodos["wA"] = <<>>
       /\ workspaceTodos["wB"] # <<>>

PositionsDense(todos) == \A i \in 1..Len(todos) : todos[i].position = i

\* C10: the positions of every persisted list are exactly 1..N in list order,
\* whichever mutating operations have run.
C10_PositionsDense == \A s \in Scopes : PositionsDense(readTodos(s))

\* a reorder or a drop has put the second todo first
C10_Witness ==
    \E s \in Scopes :
       /\ Len(readTodos(s)) = 2
       /\ readTodos(s)[1].id = 2
       /\ readTodos(s)[1].position = 1
       /\ readTodos(s)[2].position = 2

\* the auto-delete state of a key: scheduled while its delay timeout is
\* pending, fading while its removal timeout is pending, none otherwise
Phase(key) ==
    IF key \notin DOMAIN timers THEN "none"
    ELSE IF \E t \in live : t.h = timers[key] /\ t.kind = "delay" THEN "scheduled"
    ELSE IF \E t \in live : t.h = timers[key] /\ t.kind = "removal" THEN "fading"
    ELSE "none"

\* a toggle of the todo is between its persist and its schedule or cancel
ToggleInFlight(scope, todoId) ==
    \E tid \in Slots :
       /\ tasks[tid].pc = "toggle_await"
       /\ tasks[tid].scope = scope
       /\ tasks[tid].todoId = todoId

\* C1: a todo toggled to completed and toggled back to active before its fade
\* timer has fired has its auto-delete cancelled once the toggle is through,
\* and no removal callback of the coordinator removes it afterwards.
C1_ReopenedNeverAutoDeleted ==
    /\ [](\A scope \in Scopes, todoId \in TodoIds :
             (buildKey(scope, todoId) \in reopened /\ ~ToggleInFlight(scope, todoId)) =>
                Phase(buildKey(scope, todoId)) = "none")
    /\ [][\A t \in live :
             (buildKey(t.scope, t.todoId) \in reopened /\ FadeFire(t)) =>
                readTodos(t.scope)' = readTodos(t.scope)]_vars

\* an untouched todo is completed and in its list, and its auto-delete is pending
UntouchedIsPending ==
    \A scope \in Scopes, todoId \in TodoIds :
       buildKey(scope, todoId) \in untouched =>
          /\ config.autoDeleteCompleted
          /\ Phase(buildKey(scope, todoId)) \in { "scheduled", "fading" }
          /\ \E i \in 1..Len(readTodos(scope)) :
                readTodos(scope)[i].id = todoId /\ readTodos(scope)[i].completed

\* the steps of an untouched todo: the delay callback takes it from scheduled
\* to fading and posts the cue with the configured fade duration, no other
\* step posts a cue for it, the removal callback takes it from fading to none
\* and removes it, and no other step changes its phase or removes it
UntouchedSteps ==
    \A scope \in Scopes, todoId \in TodoIds :
       LET key == buildKey(scope, todoId)
           cue == AutoDeleteCue(scope, todoId,
                     sanitizeDelay(config.autoDeleteFadeMs, DEFAULT_AUTO_DELETE_FADE_MS))
       IN  key \in untouched =>
             /\ \A t \in live : (t.scope = scope /\ t.todoId = todoId) =>
                   /\ DelayFire(t) =>
                         /\ Phase(key) = "scheduled" /\ Phase(key)' = "fading"
                         /\ out' = << cue >>
                         /\ key \in untouched'
                   /\ FadeFire(t) =>
                         /\ Phase(key) = "fading" /\ Phase(key)' = "none"
                         /\ ~HasTodo(readTodos(scope)', todoId)
             /\ (\E i \in 1..Len(out') :
                    out'[i].type = "autoDeleteCue" /\ out'[i].todoId = todoId) =>
                   Phase(key) = "scheduled" /\ Phase(key)' = "fading"
             /\ key \in untouched' =>
                   /\ HasTodo(readTodos(scope)', todoId)
                   /\ Phase(key)' # Phase(key) =>
                         Phase(key) = "scheduled" /\ Phase(key)' = "fading"

\* C2: with auto-delete enabled a todo toggled to completed and left untouched
\* (no handler that touches it has started or is still running since) is
\* scheduled or fading and still in its list; its delay callback takes it
\* from scheduled to fading and posts the one autoDeleteCue, with the
\* configured fade duration; its removal callback takes it from fading to
\* none and removes it from the list; and it does not stay untouched and
\* unremoved forever.
C2_AutoDeleteLifecycle ==
    /\ []UntouchedIsPending
    /\ [][UntouchedSteps]_vars
    /\ \A scope \in AutoScopes, todoId \in TodoIds :
          (buildKey(scope, todoId) \in untouched) ~> (buildKey(scope, todoId) \notin untouched)

\* the removal callback of a todo has removed it and its broadcast is pending
C2_Witness ==
    \E p \in autoPending :
       /\ ~HasTodo(readTodos(p.scope), p.todoId)
       /\ Phase(buildKey(p.scope, p.todoId)) = "none"
       /\ config.autoDeleteFadeMs = NotANumber

\* the step is the accepted undo prompt of the handler in slot tid
AcceptsUndo(tid) == RemoveUndo(tid) \/ ClearUndo(tid)

\* the handler in slot tid is past its capture and has not answered its prompt
InUndoFlow(tid) ==
    tasks[tid].pc \in { "remove_await", "remove_prompt", "clear_await", "clear_prompt" }

\* C3: removeTodoWithUndo and then the accepted undo prompt, with no other
\* step in between, leave the persisted list of the scope equal to the list
\* before the removal: same todos, same order, same positions.
C3_UndoRoundTrip ==
    [][\A tid \in Slots : (RemoveUndo(tid) /\ solo = tid) =>
          readTodos(tasks[tid].scope)' = tasks[tid].todos]_vars

\* the undo of a removal from a list of two has been accepted right away
C3_Witness ==
    \E tid \in Slots :
       /\ tasks[tid].pc = "restore_await"
       /\ tasks[tid].via = "remove"
       /\ solo = tid
       /\ Len(tasks[tid].todos) = 2
       /\ readTodos(tasks[tid].scope) = tasks[tid].todos

\* C4: when the undo prompt of the latest destructive action on a scope is
\* accepted, the snapshot that action captured is still stored, it is
\* restored and persisted, and the broadcast follows.
C4_LatestUndoRestores ==
    [][\A tid \in Slots :
          /\ (AcceptsUndo(tid) /\ MostRecent(SnapshotKey(tasks[tid].scope), tid)) =>
                /\ SnapshotsOf(SnapshotKey(tasks[tid].scope))
                      = { [key |-> SnapshotKey(tasks[tid].scope), todos |-> tasks[tid].todos] }
                /\ readTodos(tasks[tid].scope)' = tasks[tid].todos
                /\ tasks'[tid].pc = "restore_await"
          /\ RestoreResume(tid) => out' = << Msg("info"), StateUpdate >>]_vars

\* C5: once the expiry timeout of the latest destructive action on a scope,
\* whose prompt was dismissed, has fired and no destructive action followed,
\* the scope has no snapshot.
C5_ExpiredSnapshotGone ==
    \A key \in SnapshotKeys : recent[key].status = "elapsed" => SnapshotsOf(key) = {}

\* the expiry timeout of a dismissed prompt has fired
C5_Witness ==
    \E key \in SnapshotKeys : recent[key].status = "elapsed" /\ SnapshotsOf(key) = {}

\* C6: an accepted undo restores no list but the one its own destructive
\* action captured.
C6_UndoRestoresOwnSnapshot ==
    [][\A tid \in Slots : AcceptsUndo(tid) =>
          \A snapshot \in SnapshotsOf(SnapshotKey(tasks[tid].scope)) :
             snapshot.todos = tasks[tid].todos]_vars

\* C7: a stored snapshot always has something pending that will clear it: an
\* expiry timeout of its key, or a handler that will offer the undo and set
\* the timeout when the prompt is dismissed.
C7_SnapshotWillBeCleared ==
    \A key \in SnapshotKeys : SnapshotsOf(key) # {} =>
       \/ \E i \in 1..Len(expiry) : expiry[i].key = key
       \/ \E tid \in Slots : InUndoFlow(tid) /\ SnapshotKey(tasks[tid].scope) = key

\* the step takes the handler in slot tid past its captureSnapshot, to the
\* await of the persist that follows
Captures(tid) ==
    /\ tasks[tid].pc \notin { "remove_await", "clear_await" }
    /\ tasks'[tid].pc \in { "remove_await", "clear_await" }

\* the step is a destructive action on scope s
DestructiveOn(s) ==
    \/ \E id \in TodoIds : RemoveTodo(s, id)
    \/ ClearScope(s)
    \/ ClearTodos(s)
    \/ \E target \in TodoTargets :
          /\ target.scope = s.scope /\ target.workspaceFolder = s.workspaceFolder
          /\ RemoveTodoCommand(target)
    \/ \E tid \in Slots : tasks[tid].scope = s /\ ClearConfirm(tid, TRUE)

\* C8: every scope key has at most one snapshot; a destructive action on a
\* scope replaces the snapshot of that scope's key and changes the snapshot
\* of no other key.
C8_OneSnapshotPerKey ==
    /\ [](\A key \in SnapshotKeys : Cardinality(SnapshotsOf(key)) <= 1)
    /\ [][(snapshots' # snapshots \/ \E tid \in Slots : Captures(tid)) =>
             \A s \in Scopes : DestructiveOn(s) =>
                /\ \A key \in SnapshotKeys \ { scopeKey(s.scope, s.workspaceFolder) } :
                      SnapshotsOf(key)' = SnapshotsOf(key)
                /\ \A tid \in Slots : Captures(tid) =>
                      SnapshotsOf(scopeKey(s.scope, s.workspaceFolder))'
                         = { [key |-> scopeKey(s.scope, s.workspaceFolder),
                              todos |-> tasks'[tid].todos] }]_vars

\* a removal in folder wA has replaced that folder's snapshot while the global
\* key keeps its own
C8_Witness ==
    /\ SnapshotsOf("global") # {}
    /\ \E tid \in Slots :
          /\ tasks[tid].pc = "remove_await"
          /\ tasks[tid].scope = WorkspaceScope("wA")
          /\ SnapshotsOf("wA") = { [key |-> "wA", todos |-> tasks[tid].todos] }

\* every todo of every partition
AllTodos == UNION { Range(readTodos(s)) : s \in Scopes }

AutoDeletes(scope) ==
    /\ readTodos(scope)' # readTodos(scope)
    /\ \E t \in live : t.scope = scope /\ FadeFire(t)

\* C12: the deletion by auto-delete captures no snapshot, leaves the stored
\* snapshots and their expiry timeouts as they are, shows no undo prompt and
\* leaves no handler waiting for one; the broadcast that follows its persist
\* changes no snapshot either and is a stateUpdate alone.
C12_AutoDeleteBypassesUndo ==
    [][/\ \A scope \in Scopes : AutoDeletes(scope) =>
             /\ snapshots' = snapshots
             /\ expiry' = expiry
             /\ tasks' = tasks
             /\ out' = <<>>
       /\ \A p \in autoPending : AutoDeleteResume(p) =>
             /\ snapshots' = snapshots
             /\ expiry' = expiry
             /\ tasks' = tasks
             /\ out' = << StateUpdate >>]_vars

\* auto-delete has removed the last todo of a scope whose snapshot, taken by
\* an earlier removal with undo, is still stored
C12_Witness ==
    \E p \in autoPending :
       /\ readTodos(p.scope) = <<>>
       /\ \E snapshot \in SnapshotsOf(SnapshotKey(p.scope)) :
             /\ Len(snapshot.todos) = 2
             /\ HasTodo(snapshot.todos, p.todoId)

\* the pending timeouts of a (scope, todoId) pair
TimersOfPair(scope, todoId) == { t \in live : t.scope = scope /\ t.todoId = todoId }

\* the timer state of a pair: its pending timeouts and the entry of its key
TimerState(scope, todoId) ==
    [pending |-> TimersOfPair(scope, todoId),
     entry |-> IF buildKey(scope, todoId) \in DOMAIN timers
               THEN << timers[buildKey(scope, todoId)] >> ELSE << >>]

\* the step is the resumed toggle in slot tid calling schedule
Schedules(tid) == tasks[tid].pc = "toggle_await" /\ tasks[tid].completed /\ ToggleResume(tid)

\* the step is the resumed toggle in slot tid calling cancel
Cancels(tid) == tasks[tid].pc = "toggle_await" /\ ~tasks[tid].completed /\ ToggleResume(tid)

\* C13: a (scope, todoId) pair has at most one pending timeout, delay or
\* removal, and every pending timeout is the one the map holds under its key,
\* so a timeout that was superseded is no longer pending and cannot fire; a
\* schedule of a key that has a pending timeout leaves the new delay timeout
\* as its only one.
C13_OneTimerPerKey ==
    /\ [](\A t \in live :
             /\ TimersOfPair(t.scope, t.todoId) = { t }
             /\ buildKey(t.scope, t.todoId) \in DOMAIN timers
             /\ timers[buildKey(t.scope, t.todoId)] = t.h)
    /\ [][\A tid \in Slots, scope \in Scopes, todoId \in TodoIds :
             (/\ config.autoDeleteCompleted
              /\ scope = tasks[tid].scope
              /\ todoId = tasks[tid].todoId
              /\ TimersOfPair(scope, todoId) # {}
              /\ Schedules(tid)) =>
                \E t \in live' :
                   /\ t.kind = "delay"
                   /\ TimersOfPair(scope, todoId)' = { t }
                   /\ timers'[buildKey(scope, todoId)] = t.h]_vars

\* a toggle to completed is about to call schedule for a todo that is fading
C13_Witness ==
    \E tid \in Slots :
       /\ tasks[tid].pc = "toggle_await"
       /\ tasks[tid].completed
       /\ config.autoDeleteCompleted
       /\ Phase(buildKey(tasks[tid].scope, tasks[tid].todoId)) = "fading"

\* C14: a schedule or a cancel for one (scope, todoId) pair leaves the timer
\* state of every other pair as it was, and the keys built for distinct pairs
\* are distinct strings.
C14_TimerKeyIsolation ==
    /\ [](\A s1 \in Scopes, s2 \in Scopes, id1 \in TodoIds, id2 \in TodoIds :
             buildKey(s1, id1) = buildKey(s2, id2) => s1 = s2 /\ id1 = id2)
    /\ [][\A tid \in Slots : (Schedules(tid) \/ Cancels(tid)) =>
             \A scope \in Scopes, todoId \in TodoIds :
                (scope # tasks[tid].scope \/ todoId # tasks[tid].todoId) =>
                   TimerState(scope, todoId)' = TimerState(scope, todoId)]_vars

\* two todos of one scope: one has been scheduled while the other was fading
C14_Witness ==
    \E scope \in Scopes :
       /\ Phase(buildKey(scope, 1)) = "fading"
       /\ Phase(buildKey(scope, 2)) = "scheduled"

\* C15: with auto-delete disabled, schedule has the effect of cancel: the map
\* and the pending timeouts are what cancel leaves, the key has no entry and
\* the pair no pending timeout, so that no cue and no deletion can follow.
C15_DisabledScheduleCancels ==
    [][\A tid \in Slots, scope \in Scopes, todoId \in TodoIds :
          (/\ ~config.autoDeleteCompleted
           /\ scope = tasks[tid].scope
           /\ todoId = tasks[tid].todoId
           /\ Schedules(tid)) =>
             /\ timers' = Cancelled(timers, live, scope, todoId).timers
             /\ live' = Cancelled(timers, live, scope, todoId).live
             /\ TimerState(scope, todoId)' = [pending |-> {}, entry |-> << >>]
             /\ \A i \in 1..Len(out') : out'[i].type # "autoDeleteCue"]_vars

\* auto-delete is disabled and a completed todo has no timer and no toggle in flight
C15_Witness ==
    /\ ~config.autoDeleteCompleted
    /\ \A tid \in Slots : tasks[tid].pc = "idle"
    /\ live = {}
    /\ \E i \in 1..Len(globalTodos) : globalTodos[i].completed

\* C16: once the coordinator is disposed, no delay callback and no removal
\* callback of the coordinator runs, whatever handler resumes afterwards.
C16_NoCallbackAfterDispose ==
    [][(disposed /\ live # {}) => \A t \in live : ~(DelayFire(t) \/ FadeFire(t))]_vars

\* C17: after teardown no snapshot-expiry timeout is pending.
C17_NoExpiryAfterTeardown ==
    disposed => expiry = << >>

\* the step persists nothing, touches no timer and no snapshot, starts no
\* handler that would prompt or broadcast later, and emits nothing
CompleteNoOp ==
    /\ out' = << >>
    /\ UNCHANGED << globalTodos, workspaceTodos, nextId, snapshots, expiry, timers, live,
                    tasks, autoPending >>

\* no todo of the scope's list has the id
Absent(scope, todoId) ==
    \A i \in 1..Len(readTodos(scope)) : readTodos(scope)[i].id # todoId

\* the item of the quick pick that names the todo id in the scope
TargetOf(scope, todoId) ==
    [scope |-> scope.scope, workspaceFolder |-> scope.workspaceFolder, todoId |-> todoId]

\* C18: a toggle, an edit or a remove that names a todo id its scope's list
\* does not hold is a complete no-op: nothing is persisted, no timer is
\* scheduled or cancelled, no snapshot is captured or overwritten, no undo
\* prompt is shown and no stateUpdate is broadcast.
C18_AbsentTodoNoOp ==
    [][\/ CompleteNoOp
       \/ \A scope \in Scopes, todoId \in TodoIds :
             ~(/\ Absent(scope, todoId)
               /\ \/ ToggleComplete(scope, todoId)
                  \/ RemoveTodo(scope, todoId)
                  \/ \E title \in EditTitles : CommitEdit(scope, todoId, title)
                  \/ /\ PickCount > 0
                     /\ \/ CompleteTodo(TargetOf(scope, todoId))
                        \/ RemoveTodoCommand(TargetOf(scope, todoId))
                        \/ EditTodo(TargetOf(scope, todoId)))]_vars

\* todo 1 is gone from the global list, which still holds a todo with a
\* pending timer, and the snapshot of the removal is stored
C18_Witness ==
    /\ out = << >>
    /\ Absent(GlobalScope, 1)
    /\ \E t \in live : t.scope = GlobalScope /\ t.todoId = 2
    /\ \E snapshot \in SnapshotsOf(SnapshotKey(GlobalScope)) :
          \E i \in 1..Len(snapshot.todos) : snapshot.todos[i].id = 1

\* the title is empty or consists of blanks
Blank(title) == \A i \in 1..Len(title) : title[i] = " "

\* C19: a commitCreate or a commitEdit whose title is empty or consists of
\* whitespace changes nothing: no todo is created or modified, nothing is
\* persisted and no stateUpdate is broadcast.
C19_BlankTitleNoOp ==
    [][\/ CompleteNoOp
       \/ \A scope \in WebviewScopes, title \in CreateTitles \cup EditTitles :
             ~(/\ Blank(title)
               /\ \/ CommitCreate(scope, title)
                  \/ \E todoId \in TodoIds : CommitEdit(scope, todoId, title))]_vars

\* a list holds a todo and nothing has happened in the last step
C19_Witness ==
    /\ out = << >>
    /\ \A tid \in Slots : tasks[tid].pc = "idle"
    /\ Len(readTodos(WorkspaceScope("wA"))) = 1
    /\ readTodos(WorkspaceScope("wA"))[1].title = << "a" >>
    /\ nextId = 2

\* the step changes no list, no snapshot and no timer, starts no handler and
\* neither broadcasts nor fails
ReturnsQuietly ==
    /\ \A i \in 1..Len(out') : out'[i].type \notin { "stateUpdate", "rejected" }
    /\ UNCHANGED << globalTodos, workspaceTodos, nextId, snapshots, expiry, timers, live,
                    tasks, autoPending >>

\* C20: an entry point whose target resolution yields nothing (the quick pick
\* is dismissed or has nothing to offer, or the message names the workspace
\* scope without a workspace folder) returns without error, changes no list,
\* no snapshot and no timer, and broadcasts nothing.
C20_UnresolvedTargetNoOp ==
    [][\/ ReturnsQuietly
       \/ ~(\/ \E title \in CreateTitles : CommitCreate(WorkspaceScope(NoFolder), title)
            \/ \E todoId \in TodoIds, title \in EditTitles :
                  CommitEdit(WorkspaceScope(NoFolder), todoId, title)
            \/ \E order \in SomeOrders : ReorderTodos(WorkspaceScope(NoFolder), order)
            \/ \E todoId \in TodoIds : ToggleComplete(WorkspaceScope(NoFolder), todoId)
            \/ \E todoId \in TodoIds : RemoveTodo(WorkspaceScope(NoFolder), todoId)
            \/ ClearScope(WorkspaceScope(NoFolder))
            \/ AddTodo(NoScope)
            \/ ClearTodos(NoScope)
            \/ CompleteTodo(NoPick)
            \/ RemoveTodoCommand(NoPick)
            \/ EditTodo(NoPick)
            \/ /\ PickCount = 0
               /\ \E target \in TodoTargets :
                     \/ CompleteTodo(target)
                     \/ RemoveTodoCommand(target)
                     \/ EditTodo(target))]_vars

\* a command found no todo to offer while a snapshot and its expiry timer are there
C20_Witness ==
    /\ out = << Msg("info") >>
    /\ snapshots # {}
    /\ expiry # << >>

\* the step is a clearScope call on the scope, from the webview or the command
ClearCalled(scope) == ClearScope(scope) \/ ClearTodos(scope)

\* the outputs of the step include this kind of message
Emits(type) == \E i \in 1..Len(out') : out'[i].type = type

\* C21: clearScope opens the confirmation dialog exactly when
\* confirmDestructiveActions is set and the scope holds more than one todo;
\* the step that opens it and the step that takes the refusal leave the
\* scope's list and the snapshots as they are and show no undo prompt, and
\* after the refusal the handler has returned.
C21_ConfirmationGuard ==
    [][/\ \A scope \in Scopes : ClearCalled(scope) =>
             /\ Emits("confirmPrompt") <=>
                   (config.confirmDestructiveActions /\ Len(readTodos(scope)) > 1)
             /\ Emits("confirmPrompt") =>
                   /\ UNCHANGED << globalTodos, workspaceTodos, snapshots, expiry >>
                   /\ ~Emits("undoPrompt")
       /\ \A tid \in Slots : (tasks[tid].pc = "clear_confirm" /\ ClearConfirm(tid, FALSE)) =>
             /\ UNCHANGED << globalTodos, workspaceTodos, snapshots, expiry >>
             /\ out' = << >>
             /\ tasks'[tid] = Idle]_vars

\* a confirmation dialog is open while the snapshot of an earlier clear of the
\* scope is stored
C21_Witness ==
    \E tid \in Slots :
       /\ tasks[tid].pc = "clear_confirm"
       /\ out = << >>
       /\ SnapshotsOf(SnapshotKey(tasks[tid].scope)) # {}

\* C22: clearScope on a scope without todos shows the informational notice
\* and does nothing else: no list, no snapshot, no expiry timer and no timer of
\* the coordinator changes, and no handler stays suspended for a dialog.
C22_EmptyClearNoOp ==
    [][\A scope \in Scopes : (Len(readTodos(scope)) = 0 /\ ClearCalled(scope)) =>
          /\ out' = << Msg("info") >>
          /\ UNCHANGED << globalTodos, workspaceTodos, nextId, snapshots, expiry, timers, live,
                          tasks, autoPending >>]_vars

\* the notice of an empty clear while the snapshot of the scope is stored
C22_Witness ==
    /\ out = << Msg("info") >>
    /\ readTodos(GlobalScope) = << >>
    /\ SnapshotsOf(SnapshotKey(GlobalScope)) # {}

\* the pending timeouts of the todos of a scope
TimersOfScope(scope) == { t \in live : t.scope = scope }

\* C28: a clearScope call that ends because the confirmation was refused
\* leaves the coordinator as it was: neither the step that opens the dialog
\* nor the step that takes the refusal sets or clears a timeout or changes the
\* map.
C28_RefusedClearKeepsTimers ==
    [][/\ \A scope \in Scopes : (ClearCalled(scope) /\ Emits("confirmPrompt")) =>
             UNCHANGED << timers, live >>
       /\ \A tid \in Slots : (tasks[tid].pc = "clear_confirm" /\ ClearConfirm(tid, FALSE)) =>
             UNCHANGED << timers, live >>]_vars

\* a clear has emptied the scope in slot tid and the scope is still empty
ClearedBy(tid) ==
    /\ tasks[tid].pc \in { "clear_await", "clear_prompt" }
    /\ readTodos(tasks[tid].scope) = << >>

\* C30: once a clear has emptied a scope, no timeout of the coordinator is
\* pending for a todo of the scope, whatever was toggled while the
\* confirmation dialog was open.
C30_NoTimerAfterClear ==
    \A tid \in Slots : ClearedBy(tid) => TimersOfScope(tasks[tid].scope) = {}

\* no handler is suspended at an await or a dialog and no broadcast is due
Quiescent ==
    /\ \A tid \in Slots : tasks[tid].pc = "idle"
    /\ autoPending = {}

\* C29: with auto-delete enabled, in every quiescent state every completed
\* todo of a persisted list has a pending delay or removal timeout.
C29_CompletedHasTimer ==
    (config.autoDeleteCompleted /\ ~disposed /\ Quiescent) =>
       \A scope \in Scopes : \A i \in 1..Len(readTodos(scope)) :
          readTodos(scope)[i].completed =>
             Phase(buildKey(scope, readTodos(scope)[i].id)) \in { "scheduled", "fading" }

\* C27: a removal callback of the coordinator that deletes a todo finds it
\* completed in the persisted list, when no toggle of the todo is in flight.
C27_AutoDeleteOnlyCompleted ==
    [][\A t \in live :
          (/\ ~ToggleInFlight(t.scope, t.todoId)
           /\ readTodos(t.scope)' # readTodos(t.scope)
           /\ FadeFire(t)) =>
             \E i \in 1..Len(readTodos(t.scope)) :
                /\ readTodos(t.scope)[i].id = t.todoId
                /\ readTodos(t.scope)[i].completed]_vars

\* C26: the removal callback of a todo that is in its list removes the timer
\* entry of the key and lets no failure escape and shows no notice; when its
\* persist fails the todo stays in the list, the failure is logged and nothing
\* is broadcast.
C26_AutoDeleteFailureSwallowed ==
    [][\A t \in live :
          (/\ t.kind = "removal"
           /\ HasTodo(readTodos(t.scope), t.todoId)
           /\ FadeFire(t)) =>
             /\ buildKey(t.scope, t.todoId) \notin DOMAIN timers'
             /\ TimersOfPair(t.scope, t.todoId)' = {}
             /\ ~Emits("rejected") /\ ~Emits("info") /\ ~Emits("undoPrompt")
             /\ \/ IdsOf(readTodos(t.scope)') = IdsOf(SeqFilterIdNot(readTodos(t.scope), t.todoId))
                \/ /\ UNCHANGED << globalTodos, workspaceTodos, autoPending, tasks >>
                   /\ out' = << Msg("console.error") >>]_vars

\* the failure of an auto-delete was logged: the completed todo is in its list
\* and its key has no timer
C26_Witness ==
    /\ out = << Msg("console.error") >>
    /\ \E i \in 1..Len(globalTodos) :
          /\ globalTodos[i].completed
          /\ buildKey(GlobalScope, globalTodos[i].id) \notin DOMAIN timers
          /\ TimersOfPair(GlobalScope, globalTodos[i].id) = {}

\* the ids an order array names that the list holds, in the order given
NamedIds(todos, orderedIds) ==
    SelectSeq(orderedIds, LAMBDA id : \E i \in 1..Len(todos) : todos[i].id = id)

\* the ids of the list that the order array does not name, in the list's order
UnnamedIds(todos, orderedIds) ==
    SelectSeq(IdsOf(todos), LAMBDA id : \A k \in 1..Len(orderedIds) : orderedIds[k] # id)

\* the order array names no id twice
NamesOnce(orderedIds) ==
    \A i \in 1..Len(orderedIds), j \in 1..Len(orderedIds) : orderedIds[i] = orderedIds[j] => i = j

\* the todo without its position
Content(todo) == [id |-> todo.id, title |-> todo.title, completed |-> todo.completed]

\* result is the list the claim describes for reorderTodosByOrder(todos, orderedIds)
ReorderedAsClaimed(todos, orderedIds, result) ==
    /\ Len(result) = Len(todos)
    /\ { Content(result[i]) : i \in 1..Len(result) } = { Content(todos[i]) : i \in 1..Len(todos) }
    /\ \A i \in 1..Len(result) : result[i].position = i
    /\ UnnamedIds(result, orderedIds) = UnnamedIds(todos, orderedIds)
    /\ \A i \in 1..Len(result), j \in 1..Len(result) :
          (/\ \E k \in 1..Len(orderedIds) : orderedIds[k] = result[i].id
           /\ \A k \in 1..Len(orderedIds) : orderedIds[k] # result[j].id) => i < j
    /\ NamesOnce(orderedIds) =>
          SubSeq(IdsOf(result), 1, Len(NamedIds(todos, orderedIds))) = NamedIds(todos, orderedIds)

\* C24: reorderTodosByOrder yields the todos the order array names, in the
\* order given, followed by the todos it does not name in their prior relative
\* order; ids the list does not hold are ignored and the positions are 1..N;
\* the list a reorderTodos message persists is that list.
C24_ReorderByOrder ==
    /\ [](\A order \in ReorderOrders :
             ReorderedAsClaimed(globalTodos, order, reorderTodosByOrder(globalTodos, order).todos))
    /\ [][\A order \in ReorderOrders :
             (globalTodos' # globalTodos /\ ReorderTodos(GlobalScope, order)) =>
                ReorderedAsClaimed(globalTodos, order, globalTodos')]_vars

\* the list [1, 2, 3] after the message with the order [3, 1]
C24_Witness ==
    /\ \E tid \in Slots : tasks[tid].pc = "mutation_await"
    /\ IdsOf(globalTodos) = << 3, 1, 2 >>
    /\ \A i \in 1..3 : globalTodos[i].position = i

\* the list already has the order the order array asks for
InOrder(todos, orderedIds) ==
    SubSeq(IdsOf(todos), 1, Len(NamedIds(todos, orderedIds))) = NamedIds(todos, orderedIds)

\* C25: a reorderTodos message on a list of at most one todo, or on a list
\* that already has the order asked for, changes nothing and broadcasts
\* nothing; after a reorder the same order array asks for no change.
C25_ReorderNoChange ==
    /\ [](\A order \in ReorderOrders :
             ~reorderTodosByOrder(reorderTodosByOrder(globalTodos, order).todos, order).changed)
    /\ [][\A order \in ReorderOrders :
             /\ (/\ Len(globalTodos) <= 1 \/ (NamesOnce(order) /\ InOrder(globalTodos, order))
                 /\ ReorderTodos(GlobalScope, order)) => CompleteNoOp
             /\ (globalTodos' # globalTodos /\ NamesOnce(order) /\ ReorderTodos(GlobalScope, order)) =>
                   InOrder(globalTodos', order)]_vars

\* a reorderTodos message on a list of three todos has returned without a change
C25_Witness ==
    /\ out = << >>
    /\ Len(globalTodos) = 3
    /\ \A tid \in Slots : tasks[tid].pc = "idle"

\* the handler is suspended at the await of a persist
AwaitsPersist(tid) ==
    tasks[tid].pc \in { "mutation_await", "toggle_await", "remove_await", "clear_await", "restore_await" }

\* number of stateUpdate messages a sequence of outputs holds
Broadcasts(msgs) == Cardinality({ i \in 1..Len(msgs) : msgs[i].type = "stateUpdate" })

\* the step takes the handler in slot tid from one position to another
Moves(tid, from, to) == tasks[tid].pc = from /\ tasks'[tid].pc = to

\* C23: a message that changes a persisted list leaves its handler at the
\* await of the persist, the continuation after that await broadcasts one
\* stateUpdate, and the continuation runs; a removeTodo broadcasts once after
\* the removal and once more exactly when its undo restores the snapshot;
\* webviewReady broadcasts one stateUpdate and changes nothing.
C23_BroadcastAfterPersist ==
    /\ [][/\ (globalTodos' # globalTodos \/ workspaceTodos' # workspaceTodos) =>
                /\ Broadcasts(out') = 0
                /\ \E tid \in Slots : ~AwaitsPersist(tid) /\ AwaitsPersist(tid)'
          /\ \A tid \in Slots :
                /\ (AwaitsPersist(tid) /\ tasks'[tid] # tasks[tid]) => Broadcasts(out') = 1
                /\ Moves(tid, "idle", "remove_await") => Broadcasts(out') = 0
                /\ Moves(tid, "remove_await", "remove_prompt") => Broadcasts(out') = 1
                /\ Moves(tid, "remove_prompt", "idle") => Broadcasts(out') = 0
                /\ Moves(tid, "remove_prompt", "restore_await") => Broadcasts(out') = 0
                /\ Moves(tid, "restore_await", "idle") => Broadcasts(out') = 1
                /\ (tasks[tid].pc = "remove_await") => tasks'[tid].pc \in { "remove_await", "remove_prompt" }
                /\ (tasks[tid].pc = "remove_prompt") =>
                      tasks'[tid].pc \in { "remove_prompt", "idle", "restore_await" }
                /\ (tasks[tid].pc = "restore_await") => tasks'[tid].pc \in { "restore_await", "idle" }
          /\ WebviewReady =>
                /\ out' = << StateUpdate >>
                /\ UNCHANGED << globalTodos, workspaceTodos, nextId, snapshots, expiry, timers, live,
                                tasks, autoPending >>]_vars
    /\ \A tid \in 1..MaxTasksAll :
          AwaitsPersist(tid) ~> (~AwaitsPersist(tid) /\ Broadcasts(out) = 1)

\* a removal has been persisted and broadcast once, and its undo is on offer
C23_Witness ==
    \E tid \in Slots :
       /\ tasks[tid].pc = "remove_prompt"
       /\ out = << StateUpdate, Msg("undoPrompt") >>
       /\ Len(readTodos(tasks[tid].scope)) = 1

\* the persisted list stored under a snapshot key
ListOfKey(key) == IF key = "global" THEN globalTodos ELSE workspaceTodos[key]

\* the step is the one in which clearScope captures its snapshot and empties
\* the list: the handler in slot tid arrives at the await of that persist
ClearEmpties(tid) == tasks[tid].pc # "clear_await" /\ tasks'[tid].pc = "clear_await"

\* C31: the snapshot that clearScope captures equals the persisted list of the
\* scope at the moment just before the list is emptied, also when another
\* mutation of the scope persisted while the confirmation dialog was open.
C31_ClearSnapshotIsCurrent ==
    [][\A tid \in Slots :
          ClearEmpties(tid) =>
             \A key \in { "global", "wA", "wB" } :
                ListOfKey(key)' # ListOfKey(key) =>
                   \E snapshot \in snapshots' :
                      /\ snapshot.key = key
                      /\ snapshot.todos = ListOfKey(key)]_vars

\* the step runs removeTodoWithUndo, or clearScope up to its persist, on scope
DestructiveCall(scope) ==
    \/ \E todoId \in TodoIds : RemoveTodo(scope, todoId)
    \/ ClearScope(scope)
    \/ \E tid \in Slots : tasks[tid].scope = scopeFromWebviewScope(scope) /\ ClearConfirm(tid, TRUE)

\* C32: when the persist in removeTodoWithUndo or in clearScope fails, the
\* undo snapshots and the auto-delete timers are as they were before the step.
C32_FailedPersistChangesNothing ==
    [][\A scope \in ClearScopes :
          (Emits("rejected") /\ DestructiveCall(scope)) =>
             UNCHANGED << snapshots, timers, live >>]_vars

\* the provider queues what is posted to it
Queues(mode) == ~providers[mode].webviewView \/ ~providers[mode].ready

\* the step posts message to the provider of mode
Posts(mode, message) == posted'[mode] = Append(posted[mode], message)

\* C33: what is posted to a provider whose view is unresolved or not ready is
\* queued; a webviewReady of a resolved view hands the whole queue to the
\* webview in posting order and empties it; a message posted to a ready view
\* is handed over at once, after everything posted before it. Between two
\* disposals the messages delivered, followed by the queue, are the messages
\* posted: nothing is lost, duplicated or reordered.
C33_QueueDeliveredInOrder ==
    /\ [](\A mode \in ProviderModes :
            delivered[mode] \o providers[mode].pendingMessages = posted[mode])
    /\ [][\A mode \in ProviderModes :
             /\ \A message \in OutboundTypes :
                   Posts(mode, message) =>
                      IF Queues(mode)
                      THEN /\ providers'[mode].pendingMessages =
                                 Append(providers[mode].pendingMessages, message)
                           /\ delivered'[mode] = delivered[mode]
                      ELSE /\ providers[mode].pendingMessages = <<>>
                           /\ providers'[mode].pendingMessages = <<>>
                           /\ delivered'[mode] = Append(delivered[mode], message)
             /\ (providers[mode].webviewView /\ HostWebviewReady(mode)) =>
                   /\ delivered'[mode] = delivered[mode] \o providers[mode].pendingMessages
                   /\ providers'[mode].pendingMessages = <<>>
                   /\ providers'[mode].ready]_vars

\* one view has declared readiness and got two different messages in the order
\* they were posted while the other view, resolved and not ready, queues them
C33_Witness ==
    /\ providers["global"].webviewView /\ providers["global"].ready
    /\ delivered["global"] = << "stateUpdate", "autoDeleteCue" >>
    /\ providers["projects"].webviewView /\ ~providers["projects"].ready
    /\ providers["projects"].pendingMessages = << "stateUpdate", "autoDeleteCue" >>
    /\ delivered["projects"] = <<>>

\* the setting is a number that is not NaN and not negative
GivenDuration(setting) == setting.type = "number" /\ ~setting.nan /\ setting.value >= 0

\* C34: a schedule sets its delay timeout with the configured delay and keeps
\* the configured fade duration when they are non-negative numbers, and with
\* 1500 ms and 750 ms when they are negative or not a number; the delay
\* callback sets the removal timeout with that fade duration and posts the
\* cue with the same durationMs.
C34_SanitizedDurations ==
    [][/\ \A t \in live' \ live :
             t.kind = "delay" =>
                /\ GivenDuration(config.autoDeleteDelayMs) => t.ms = config.autoDeleteDelayMs.value
                /\ ~GivenDuration(config.autoDeleteDelayMs) => t.ms = 1500
                /\ GivenDuration(config.autoDeleteFadeMs) => t.fadeDuration = config.autoDeleteFadeMs.value
                /\ ~GivenDuration(config.autoDeleteFadeMs) => t.fadeDuration = 750
       /\ \A t \in live :
             (t.kind = "delay" /\ DelayFire(t)) =>
                \E removal \in live' \ live :
                   /\ removal.kind = "removal"
                   /\ removal.ms = t.fadeDuration
                   /\ out' = << AutoDeleteCue(t.scope, t.todoId, removal.ms) >>]_vars

\* the cue of a fade of 750 ms has been posted under a negative fade setting,
\* after a delay timeout of 0 ms
C34_Witness ==
    /\ config.autoDeleteFadeMs = Num(0 - 1)
    /\ config.autoDeleteDelayMs = Num(0)
    /\ \E t \in live :
          /\ t.kind = "removal"
          /\ t.ms = 750
          /\ out = << AutoDeleteCue(t.scope, t.todoId, 750) >>

====
